---------------------------- MODULE Spec2Model ----------------------------
(***************************************************************************)
(* A model of the MK interpreter (qiaoyongchen/mk): the lexer              *)
(* (src/lexer/lexer.go), the Pratt parser (src/parser/parser.go) and the   *)
(* tree-walking evaluator (src/evaluator/evaluator.go, builtins.go,        *)
(* src/object/environment.go).                                             *)
(*                                                                         *)
(* Source text is a sequence of one-character strings.  The functions of   *)
(* the source are operators of the same name; a Go struct is a record; a   *)
(* Go panic (index out of range, nil dereference) is the field `fault' of  *)
(* the record the function works on, and stops every loop.                 *)
(***************************************************************************)
EXTENDS Integers, Sequences, FiniteSets, TLC

VARIABLES l, tokens, p, program, root, outcome

vars == <<l, tokens, p, program, root, outcome>>

(***************************************************************************)
(* Bounds of the model.                                                    *)
(***************************************************************************)
\* Width in bits of the Go `int' of Lexer.position / Lexer.readPosition.
IntBits == 5
\* Longest source text given to the lexer alone.
MaxLexLen == 3
\* Most words of a source text given to the parser.
MaxWords == 3
\* NextToken calls made by the driver after the first on one lexer.
MaxLexCalls == 4

MaxInt == 2 ^ (IntBits - 1) - 1

\* Go's wrapping signed addition on an int of IntBits bits.
WrapInt(n) == ((n + 2 ^ (IntBits - 1)) % (2 ^ IntBits)) - 2 ^ (IntBits - 1)

(***************************************************************************)
(* token (src/unnamed/part_000)                                            *)
(***************************************************************************)
NUL == "NUL"   \* byte(0)

\* The token types: token.EOF is the constant EOF of the package.  A Go
\* string is a sequence of one-character strings, except a token type, which
\* is a TLA+ string.
token ==
  [ ILLEGAL |-> "ILLEGAL", EOF |-> "EOF", IDENT |-> "IDENT",
    INT |-> "INT", STRING_ |-> "STRING", ASSIGN |-> "=", PLUS |-> "+",
    MINUS |-> "-", BANG |-> "!", ASTERISK |-> "*", SLASH |-> "/",
    COMMA |-> ",", SEMICOLON |-> ";", COLON |-> ":", GT |-> ">",
    LT |-> "<", LPAREN |-> "(", RPAREN |-> ")", LBRACE |-> "{",
    RBRACE |-> "}", LBRACKET |-> "[", RBRACKET |-> "]",
    FUNCTION |-> "FUNCTION", LET_ |-> "LET", TRUE_ |-> "TRUE",
    FALSE_ |-> "FALSE", IF_ |-> "IF", ELSE_ |-> "ELSE",
    RETURN |-> "RETURN", EQ |-> "==", NOT_EQ |-> "!=" ]

keywords ==
  { <<<<"f", "n">>, token.FUNCTION>>,
    <<<<"l", "e", "t">>, token.LET_>>,
    <<<<"t", "r", "u", "e">>, token.TRUE_>>,
    <<<<"f", "a", "l", "s", "e">>, token.FALSE_>>,
    <<<<"i", "f">>, token.IF_>>,
    <<<<"e", "l", "s", "e">>, token.ELSE_>>,
    <<<<"r", "e", "t", "u", "r", "n">>, token.RETURN>> }

LookupIdentifier(identifier) ==
  IF \E kw \in keywords : kw[1] = identifier
    THEN (CHOOSE kw \in keywords : kw[1] = identifier)[2]
    ELSE token.IDENT

Token(type, literal) == [Type |-> type, Literal |-> literal]

\* No token: the call did not return (it faulted).
NoToken == Token("NONE", <<>>)

(***************************************************************************)
(* lexer (src/lexer/lexer.go)                                              *)
(***************************************************************************)
Letters ==
  { "a", "b", "c", "d", "e", "f", "g", "h", "i", "j", "k", "l", "m",
    "n", "o", "p", "q", "r", "s", "t", "u", "v", "w", "x", "y", "z",
    "A", "B", "C", "D", "E", "F", "G", "H", "I", "J", "K", "L", "M",
    "N", "O", "P", "Q", "R", "S", "T", "U", "V", "W", "X", "Y", "Z", "_" }

Digits == { "0", "1", "2", "3", "4", "5", "6", "7", "8", "9" }

isLetter(ch) == ch \in Letters

isDigit(ch) == ch \in Digits

isWhitespace(ch) == ch \in { " ", "\t", "\n", "\r" }

\* l.input[i] with Go's bounds check; i is 0-based.
InBounds(input, i) == 0 <= i /\ i < Len(input)

\* v bound to a name in the expression F: the Go statement `x := v' followed
\* by the code that uses x.
With(v, F(_)) == F(v)

readChar(lx) ==
  IF lx.fault THEN lx
  ELSE IF lx.readPosition >= Len(lx.input)
    THEN [lx EXCEPT !.ch = NUL,
                    !.position = lx.readPosition,
                    !.readPosition = WrapInt(lx.readPosition + 1)]
  ELSE IF ~InBounds(lx.input, lx.readPosition)
    THEN [lx EXCEPT !.fault = TRUE]
  ELSE [lx EXCEPT !.ch = lx.input[lx.readPosition + 1],
                  !.position = lx.readPosition,
                  !.readPosition = WrapInt(lx.readPosition + 1)]

peekChar(lx) ==
  IF lx.readPosition >= Len(lx.input) THEN NUL
  ELSE lx.input[lx.readPosition + 1]

LexerNew(input) ==
  readChar([input |-> input, position |-> 0, readPosition |-> 0,
            ch |-> NUL, fault |-> FALSE])

RECURSIVE skipWhitespace(_)
\* skipWhitespace that skips nothing.
skipNoWhitespace(lx) == lx

skipWhitespace(lx) ==
  IF ~lx.fault /\ isWhitespace(lx.ch) THEN skipWhitespace(readChar(lx)) ELSE lx

\* l.input[from:to] with Go's bounds check (0-based, to exclusive).
Slice(input, from, to) == SubSeq(input, from + 1, to)

SliceOk(input, from, to) == 0 <= from /\ from <= to /\ to <= Len(input)

RECURSIVE readLetters(_)
readLetters(lx) ==
  IF ~lx.fault /\ isLetter(lx.ch) THEN readLetters(readChar(lx)) ELSE lx

\* The lexer after the loop, and the string returned.
readIdentifier(lx) ==
  With(readLetters(lx), LAMBDA lx2 :
    [l |-> lx2, s |-> Slice(lx2.input, lx.position, lx2.position)])

RECURSIVE readDigits(_)
readDigits(lx) ==
  IF ~lx.fault /\ isDigit(lx.ch) THEN readDigits(readChar(lx)) ELSE lx

readNumber(lx) ==
  With(readDigits(lx), LAMBDA lx2 :
    [l |-> lx2, s |-> Slice(lx2.input, lx.position, lx2.position)])

\* for { l.readChar(); if l.ch == '"' { break } }
RECURSIVE readStringLoop(_)
readStringLoop(lx) ==
  With(readChar(lx), LAMBDA lx2 :
    IF lx2.fault \/ lx2.ch = "\"" THEN lx2 ELSE readStringLoop(lx2))

readString(lx) ==
  With(readStringLoop(lx), LAMBDA lx2 :
    IF lx2.fault THEN [l |-> lx2, s |-> <<>>]
    ELSE IF ~SliceOk(lx2.input, lx.position + 1, lx2.position)
      THEN [l |-> [lx2 EXCEPT !.fault = TRUE], s |-> <<>>]
    ELSE [l |-> lx2, s |-> Slice(lx2.input, lx.position + 1, lx2.position)])

newToken(t, literal) == Token(t, <<literal>>)

SingleCharTokens ==
  { "+", "-", "/", "*", "<", ">", ";", ",", "(", ")", "{", "}", "[", "]", ":" }

\* The switch of NextToken for the cases that end in the common
\* l.readChar(): the lexer before that readChar, and the token.
NextTokenSwitch(lx) ==
  CASE lx.ch = "=" ->
         IF peekChar(lx) = "="
           THEN With(readChar(lx), LAMBDA lx2 :
                  [l |-> lx2, tok |-> Token(token.EQ, <<lx.ch, lx2.ch>>)])
           ELSE [l |-> lx, tok |-> newToken(token.ASSIGN, lx.ch)]
    [] lx.ch = "!" ->
         IF peekChar(lx) = "="
           THEN With(readChar(lx), LAMBDA lx2 :
                  [l |-> lx2, tok |-> Token(token.NOT_EQ, <<lx.ch, lx2.ch>>)])
           ELSE [l |-> lx, tok |-> newToken(token.BANG, lx.ch)]
    [] lx.ch \in SingleCharTokens -> [l |-> lx, tok |-> newToken(lx.ch, lx.ch)]
    [] lx.ch = "\"" ->
         With(readString(lx), LAMBDA r :
           [l |-> r.l, tok |-> Token(token.STRING_, r.s)])
    [] lx.ch = NUL -> [l |-> lx, tok |-> Token(token.EOF, <<>>)]
    [] OTHER -> [l |-> lx, tok |-> newToken(token.ILLEGAL, lx.ch)]

\* Lexer.NextToken: the lexer after the call and the token returned
\* (NoToken when the call faulted).
NextToken(lx0) ==
  With(skipWhitespace(lx0), LAMBDA lx :
  With(IF isLetter(lx.ch)
         THEN With(readIdentifier(lx), LAMBDA id :
                [l |-> id.l, tok |-> Token(LookupIdentifier(id.s), id.s)])
       ELSE IF isDigit(lx.ch)
         THEN With(readNumber(lx), LAMBDA n :
                [l |-> n.l, tok |-> Token(token.INT, n.s)])
       ELSE With(NextTokenSwitch(lx), LAMBDA s :
              [l |-> readChar(s.l), tok |-> s.tok]), LAMBDA r :
    IF r.l.fault THEN [l |-> r.l, tok |-> NoToken] ELSE r))

(***************************************************************************)
(* ast: a node is a record tagged by k with the fields of the Go struct    *)
(* (the Token field is left out; IntegerLiteral's value field is Int, a    *)
(* Boolean's Bool, a StringLiteral's Str, so that fields of one name hold  *)
(* values of one type).                                                    *)
(***************************************************************************)
\* The nil interface value (no node).
Nil == [k |-> "nil"]

\* A nil *ast.LetStatement inside a non-nil ast.Statement interface.
NilLetStatement == [k |-> "LetStatement", nilptr |-> TRUE]

Identifier(value) == [k |-> "Identifier", Value |-> value]

IntegerLiteral(value) == [k |-> "IntegerLiteral", Int |-> value]

Boolean(value) == [k |-> "Boolean", Bool |-> value]

StringLiteral(value) == [k |-> "StringLiteral", Str |-> value]

PrefixExpression(operator, right) ==
  [k |-> "PrefixExpression", Operator |-> operator, Right |-> right]

InfixExpression(operator, left, right) ==
  [k |-> "InfixExpression", Operator |-> operator, Left |-> left, Right |-> right]

IfExpression(condition, consequence, alternative) ==
  [k |-> "IfExpression", Condition |-> condition, Consequence |-> consequence,
   Alternative |-> alternative]

FunctionLiteral(parameters, body) ==
  [k |-> "FunctionLiteral", Parameters |-> parameters, Body |-> body]

CallExpression(function, arguments) ==
  [k |-> "CallExpression", Function |-> function, Arguments |-> arguments]

ArrayLiteral(elements) == [k |-> "ArrayLiteral", Elements |-> elements]

IndexExpression(left, index) ==
  [k |-> "IndexExpression", Left |-> left, Index |-> index]

\* Pairs is a Go map keyed by the key node's pointer: here the sequence of
\* <<key, value>> in source order; the map's iteration order is not part of it.
HashLiteral(pairs) == [k |-> "HashLiteral", Pairs |-> pairs]

LetStatement(name, value) ==
  [k |-> "LetStatement", Name |-> name, LetValue |-> value]

ReturnStatement(value) == [k |-> "ReturnStatement", ReturnValue |-> value]

ExpressionStatement(expression) ==
  [k |-> "ExpressionStatement", Expression |-> expression]

BlockStatement(statements) == [k |-> "BlockStatement", Statements |-> statements]

Program(statements) == [k |-> "Program", Statements |-> statements]

(***************************************************************************)
(* parser (src/parser/parser.go)                                           *)
(***************************************************************************)
LOWEST == 1
EQUALS == 2
LESSGREATER == 3
SUM == 4
PRODUCT == 5
PREFIX == 6
CALL == 7
INDEX == 8

precedences ==
  { <<token.EQ, EQUALS>>, <<token.NOT_EQ, EQUALS>>, <<token.LT, LESSGREATER>>, <<token.GT, LESSGREATER>>,
    <<token.PLUS, SUM>>, <<token.MINUS, SUM>>, <<token.SLASH, PRODUCT>>, <<token.ASTERISK, PRODUCT>>,
    <<token.LPAREN, CALL>>, <<token.LBRACKET, INDEX>> }

\* Precedence with the levels of the sum and the product exchanged.
PrecedenceSumOverProduct(type) ==
  IF \E e \in precedences : e[1] = type
    THEN LET level == (CHOOSE e \in precedences : e[1] = type)[2]
         IN IF level = SUM THEN PRODUCT ELSE IF level = PRODUCT THEN SUM ELSE level
    ELSE LOWEST

Precedence(type) ==
  IF \E e \in precedences : e[1] = type
    THEN (CHOOSE e \in precedences : e[1] = type)[2]
    ELSE LOWEST

peekPrecedence(ps) == Precedence(ps.peekToken.Type)

curPrecedence(ps) == Precedence(ps.curToken.Type)

nextToken(ps) ==
  With(NextToken(ps.l), LAMBDA r :
    [ps EXCEPT !.curToken = ps.peekToken, !.peekToken = r.tok, !.l = r.l])

ParserNew(lx) ==
  nextToken(nextToken([l |-> lx, errors |-> <<>>,
                       curToken |-> Token("", <<>>),
                       peekToken |-> Token("", <<>>)]))

curTokenIs(ps, t) == ps.curToken.Type = t

peekTokenIs(ps, t) == ps.peekToken.Type = t

peekError(ps, t) ==
  [ps EXCEPT !.errors =
     Append(ps.errors, [msg |-> "expected next token to be %s, got %s instead",
                        want |-> t, got |-> ps.peekToken.Type])]

noPrefixParseFnError(ps, t) ==
  [ps EXCEPT !.errors =
     Append(ps.errors, [msg |-> "no prefix parse function for %s found",
                        type |-> t])]

\* The parser after the call, and the boolean returned.
expectPeek(ps, t) ==
  IF peekTokenIs(ps, t) THEN [p |-> nextToken(ps), ok |-> TRUE]
  ELSE [p |-> peekError(ps, t), ok |-> FALSE]

\* The value of a digit string in the given base; -1 when a digit is not of
\* the base.
DigitValue(ch) ==
  CASE ch = "0" -> 0 [] ch = "1" -> 1 [] ch = "2" -> 2 [] ch = "3" -> 3
    [] ch = "4" -> 4 [] ch = "5" -> 5 [] ch = "6" -> 6 [] ch = "7" -> 7
    [] ch = "8" -> 8 [] ch = "9" -> 9 [] OTHER -> 99

RECURSIVE DigitsValue(_, _)
DigitsValue(s, base) ==
  IF s = <<>> THEN 0
  ELSE LET d == DigitValue(s[Len(s)])
           rest == DigitsValue(SubSeq(s, 1, Len(s) - 1), base)
       IN IF d >= base \/ rest < 0 THEN -1 ELSE rest * base + d

\* strconv.ParseInt(s, 0, 64) on a string of decimal digits (an INT token's
\* literal): base 0 takes a leading "0" followed by more digits as octal.
\* Values beyond the 64-bit range are outside the model's literals.
ParseInt(s) ==
  LET octal == Len(s) > 1 /\ s[1] = "0"
      v == IF s = <<>> THEN -1
           ELSE IF octal THEN DigitsValue(SubSeq(s, 2, Len(s)), 8)
           ELSE DigitsValue(s, 10)
  IN [ok |-> v >= 0, value |-> v]

parseIdentifier(ps) == [p |-> ps, node |-> Identifier(ps.curToken.Literal)]

parseIntegerLiteral(ps) ==
  LET r == ParseInt(ps.curToken.Literal)
  IN IF ~r.ok
       THEN [p |-> [ps EXCEPT !.errors =
                      Append(ps.errors, [msg |-> "could not parse %q as integer",
                                         lit |-> ps.curToken.Literal])],
             node |-> Nil]
       ELSE [p |-> ps, node |-> IntegerLiteral(r.value)]

parseBoolean(ps) == [p |-> ps, node |-> Boolean(curTokenIs(ps, token.TRUE_))]

parseStringLiteral(ps) == [p |-> ps, node |-> StringLiteral(ps.curToken.Literal)]

\* The token types with a registered prefix / infix parse function.
prefixParseFns ==
  { token.IDENT, token.INT, token.BANG, token.MINUS, token.TRUE_, token.FALSE_, token.LPAREN, token.IF_, token.FUNCTION, token.STRING_,
    token.LBRACKET, token.LBRACE }

InfixOperatorTypes == { token.PLUS, token.MINUS, token.SLASH, token.ASTERISK, token.EQ, token.NOT_EQ, token.LT, token.GT }

infixParseFns == InfixOperatorTypes \cup { token.LPAREN, token.LBRACKET }

\* for !p.curTokenIs(token.SEMICOLON) { p.nextToken() }
RECURSIVE skipToSemicolon(_)
skipToSemicolon(ps) ==
  IF ps.l.fault \/ curTokenIs(ps, token.SEMICOLON) THEN ps
  ELSE skipToSemicolon(nextToken(ps))

\* for p.peekTokenIs(token.COMMA) { nextToken; nextToken; append identifier }
RECURSIVE parseMoreParameters(_, _)
parseMoreParameters(ps, identifiers) ==
  IF ~peekTokenIs(ps, token.COMMA) THEN [p |-> ps, list |-> identifiers]
  ELSE With(nextToken(nextToken(ps)), LAMBDA p2 :
         parseMoreParameters(p2, Append(identifiers,
                                        Identifier(p2.curToken.Literal))))

\* A nil slice is the empty sequence.
parseFunctionParameters(ps) ==
  IF peekTokenIs(ps, token.RPAREN) THEN [p |-> nextToken(ps), list |-> <<>>]
  ELSE With(nextToken(ps), LAMBDA p2 :
       With(parseMoreParameters(p2, <<Identifier(p2.curToken.Literal)>>), LAMBDA r :
       With(expectPeek(r.p, token.RPAREN), LAMBDA e :
         IF ~e.ok THEN [p |-> e.p, list |-> <<>>]
         ELSE [p |-> e.p, list |-> r.list])))

\* hash.Pairs[key] = value: a key node is a fresh pointer, so a pair is
\* added, except that a nil key replaces the pair of an earlier nil key.
PutPair(pairs, key, value) ==
  IF key = Nil /\ \E i \in 1..Len(pairs) : pairs[i][1] = Nil
    THEN [i \in 1..Len(pairs) |->
            IF pairs[i][1] = Nil THEN <<key, value>> ELSE pairs[i]]
    ELSE Append(pairs, <<key, value>>)

RECURSIVE parseStatement(_), parseLetStatement(_), parseReturnStatement(_)
RECURSIVE parseExpressionStatement(_), parseExpression(_, _)
RECURSIVE parseInfixLoop(_, _, _), parsePrefix(_), parseInfix(_, _)
RECURSIVE parseInfixExpression(_, _), parsePrefixExpression(_)
RECURSIVE parseGroupedExpression(_), parseIfExpression(_)
RECURSIVE parseBlockStatement(_), parseBlockLoop(_, _), parseFunctionLiteral(_)
RECURSIVE parseCallExpression(_, _), parseArrayLiteral(_)
RECURSIVE parseExpressionList(_, _), parseMoreExpressions(_, _)
RECURSIVE parseIndexExpression(_, _), parseHashLiteral(_), parseHashLoop(_, _)

parseStatement(ps) ==
  CASE ps.curToken.Type = token.LET_ -> parseLetStatement(ps)
    [] ps.curToken.Type = token.RETURN -> parseReturnStatement(ps)
    [] OTHER -> parseExpressionStatement(ps)

parseLetStatement(ps) ==
  With(expectPeek(ps, token.IDENT), LAMBDA e1 :
    IF ~e1.ok THEN [p |-> e1.p, node |-> NilLetStatement]
    ELSE
  With(expectPeek(e1.p, token.ASSIGN), LAMBDA e2 :
    IF ~e2.ok THEN [p |-> e2.p, node |-> NilLetStatement]
    ELSE
  With(parseExpression(nextToken(e2.p), LOWEST), LAMBDA v :
    [p |-> skipToSemicolon(v.p),
     node |-> LetStatement(Identifier(e1.p.curToken.Literal), v.node)])))

parseReturnStatement(ps) ==
  With(parseExpression(nextToken(ps), LOWEST), LAMBDA v :
    [p |-> skipToSemicolon(v.p), node |-> ReturnStatement(v.node)])

parseExpressionStatement(ps) ==
  With(parseExpression(ps, LOWEST), LAMBDA e :
    [p |-> IF peekTokenIs(e.p, token.SEMICOLON) THEN nextToken(e.p) ELSE e.p,
     node |-> ExpressionStatement(e.node)])

\* prefix := p.prefixParseFns[p.curToken.Type]; prefix()
parsePrefix(ps) ==
  CASE ps.curToken.Type = token.IDENT -> parseIdentifier(ps)
    [] ps.curToken.Type = token.INT -> parseIntegerLiteral(ps)
    [] ps.curToken.Type \in { token.BANG, token.MINUS } -> parsePrefixExpression(ps)
    [] ps.curToken.Type \in { token.TRUE_, token.FALSE_ } -> parseBoolean(ps)
    [] ps.curToken.Type = token.LPAREN -> parseGroupedExpression(ps)
    [] ps.curToken.Type = token.IF_ -> parseIfExpression(ps)
    [] ps.curToken.Type = token.FUNCTION -> parseFunctionLiteral(ps)
    [] ps.curToken.Type = token.STRING_ -> parseStringLiteral(ps)
    [] ps.curToken.Type = token.LBRACKET -> parseArrayLiteral(ps)
    [] ps.curToken.Type = token.LBRACE -> parseHashLiteral(ps)

\* infix := p.infixParseFns[p.curToken.Type]; infix(left)
parseInfix(ps, left) ==
  CASE ps.curToken.Type \in InfixOperatorTypes -> parseInfixExpression(ps, left)
    [] ps.curToken.Type = token.LPAREN -> parseCallExpression(ps, left)
    [] ps.curToken.Type = token.LBRACKET -> parseIndexExpression(ps, left)

\* The for loop of parseExpression.
parseInfixLoop(ps, precedence, leftExp) ==
  IF ~peekTokenIs(ps, token.SEMICOLON) /\ precedence < peekPrecedence(ps)
    THEN IF ps.peekToken.Type \notin infixParseFns
           THEN [p |-> ps, node |-> leftExp]
           ELSE With(parseInfix(nextToken(ps), leftExp), LAMBDA r :
                  parseInfixLoop(r.p, precedence, r.node))
    ELSE [p |-> ps, node |-> leftExp]

parseExpression(ps, precedence) ==
  IF ps.curToken.Type \notin prefixParseFns
    THEN [p |-> noPrefixParseFnError(ps, ps.curToken.Type), node |-> Nil]
    ELSE With(parsePrefix(ps), LAMBDA left :
           parseInfixLoop(left.p, precedence, left.node))

\* parseInfixExpression without the lowered precedence for `+'.
parseInfixExpressionSamePrecedence(ps, left) ==
  With(parseExpression(nextToken(ps), curPrecedence(ps)), LAMBDA right :
    [p |-> right.p,
     node |-> InfixExpression(ps.curToken.Literal, left, right.node)])

parseInfixExpression(ps, left) ==
  With(IF ps.curToken.Literal = <<"+">>
         THEN parseExpression(nextToken(ps), curPrecedence(ps) - 1)
         ELSE parseExpression(nextToken(ps), curPrecedence(ps)), LAMBDA right :
    [p |-> right.p,
     node |-> InfixExpression(ps.curToken.Literal, left, right.node)])

parsePrefixExpression(ps) ==
  With(parseExpression(nextToken(ps), PREFIX), LAMBDA right :
    [p |-> right.p, node |-> PrefixExpression(ps.curToken.Literal, right.node)])

parseGroupedExpression(ps) ==
  With(parseExpression(nextToken(ps), LOWEST), LAMBDA exp :
  With(expectPeek(exp.p, token.RPAREN), LAMBDA e :
    IF ~e.ok THEN [p |-> e.p, node |-> Nil] ELSE [p |-> e.p, node |-> exp.node]))

parseIfExpression(ps) ==
  With(expectPeek(ps, token.LPAREN), LAMBDA e1 :
    IF ~e1.ok THEN [p |-> e1.p, node |-> Nil]
    ELSE
  With(parseExpression(nextToken(e1.p), LOWEST), LAMBDA cond :
  With(expectPeek(cond.p, token.RPAREN), LAMBDA e2 :
    IF ~e2.ok THEN [p |-> e2.p, node |-> Nil]
    ELSE
  With(expectPeek(e2.p, token.LBRACE), LAMBDA e3 :
    IF ~e3.ok THEN [p |-> e3.p, node |-> Nil]
    ELSE
  With(parseBlockStatement(e3.p), LAMBDA cons :
    IF ~peekTokenIs(cons.p, token.ELSE_)
      THEN [p |-> cons.p, node |-> IfExpression(cond.node, cons.node, Nil)]
      ELSE
  With(expectPeek(nextToken(cons.p), token.LBRACE), LAMBDA e4 :
    IF ~e4.ok THEN [p |-> e4.p, node |-> Nil]
    ELSE
  With(parseBlockStatement(e4.p), LAMBDA alt :
    [p |-> alt.p, node |-> IfExpression(cond.node, cons.node, alt.node)])))))))

\* for !p.curTokenIs(token.RBRACE) { parseStatement; append; nextToken }
\* parseStatement returns a non-nil interface (a nil *LetStatement inside
\* it when the let failed), so every statement is appended.
parseBlockLoop(ps, statements) ==
  IF ps.l.fault \/ curTokenIs(ps, token.RBRACE) THEN [p |-> ps, list |-> statements]
  ELSE With(parseStatement(ps), LAMBDA stmt :
         parseBlockLoop(nextToken(stmt.p), Append(statements, stmt.node)))

parseBlockStatement(ps) ==
  With(parseBlockLoop(nextToken(ps), <<>>), LAMBDA r :
    [p |-> r.p, node |-> BlockStatement(r.list)])

parseFunctionLiteral(ps) ==
  With(expectPeek(ps, token.LPAREN), LAMBDA e1 :
    IF ~e1.ok THEN [p |-> e1.p, node |-> Nil]
    ELSE
  With(parseFunctionParameters(e1.p), LAMBDA params :
  With(expectPeek(params.p, token.LBRACE), LAMBDA e2 :
    IF ~e2.ok THEN [p |-> e2.p, node |-> Nil]
    ELSE
  With(parseBlockStatement(e2.p), LAMBDA body :
    [p |-> body.p, node |-> FunctionLiteral(params.list, body.node)]))))

parseCallExpression(ps, function) ==
  With(parseExpressionList(ps, token.RPAREN), LAMBDA args :
    [p |-> args.p, node |-> CallExpression(function, args.list)])

parseArrayLiteral(ps) ==
  With(parseExpressionList(ps, token.RBRACKET), LAMBDA elements :
    [p |-> elements.p, node |-> ArrayLiteral(elements.list)])

\* for p.peekTokenIs(token.COMMA) { nextToken; nextToken; append expression }
parseMoreExpressions(ps, list) ==
  IF ~peekTokenIs(ps, token.COMMA) THEN [p |-> ps, list |-> list]
  ELSE With(parseExpression(nextToken(nextToken(ps)), LOWEST), LAMBDA e :
         parseMoreExpressions(e.p, Append(list, e.node)))

parseExpressionList(ps, end) ==
  IF peekTokenIs(ps, end) THEN [p |-> nextToken(ps), list |-> <<>>]
  ELSE With(parseExpression(nextToken(ps), LOWEST), LAMBDA first :
       With(parseMoreExpressions(first.p, <<first.node>>), LAMBDA r :
       With(expectPeek(r.p, end), LAMBDA e :
         IF ~e.ok THEN [p |-> e.p, list |-> <<>>]
         ELSE [p |-> e.p, list |-> r.list])))

parseIndexExpression(ps, left) ==
  With(parseExpression(nextToken(ps), LOWEST), LAMBDA index :
  With(expectPeek(index.p, token.RBRACKET), LAMBDA e :
    IF ~e.ok THEN [p |-> e.p, node |-> Nil]
    ELSE [p |-> e.p, node |-> IndexExpression(left, index.node)]))

\* for !p.peekTokenIs(token.RBRACE) { ... }: ok is FALSE when the body
\* returned nil from parseHashLiteral.
parseHashLoop(ps, pairs) ==
  IF peekTokenIs(ps, token.RBRACE) THEN [p |-> ps, list |-> pairs, ok |-> TRUE]
  ELSE
  With(parseExpression(nextToken(ps), LOWEST), LAMBDA key :
  With(expectPeek(key.p, token.COLON), LAMBDA e1 :
    IF ~e1.ok THEN [p |-> e1.p, list |-> pairs, ok |-> FALSE]
    ELSE
  With(parseExpression(nextToken(e1.p), LOWEST), LAMBDA value :
  With(PutPair(pairs, key.node, value.node), LAMBDA pairs2 :
    IF peekTokenIs(value.p, token.RBRACE) THEN parseHashLoop(value.p, pairs2)
    ELSE
  With(expectPeek(value.p, token.COMMA), LAMBDA e2 :
    IF ~e2.ok THEN [p |-> e2.p, list |-> pairs2, ok |-> FALSE]
    ELSE parseHashLoop(e2.p, pairs2))))))

parseHashLiteral(ps) ==
  With(parseHashLoop(ps, <<>>), LAMBDA r :
    IF ~r.ok THEN [p |-> r.p, node |-> Nil]
    ELSE
  With(expectPeek(r.p, token.RBRACE), LAMBDA e :
    IF ~e.ok THEN [p |-> e.p, node |-> Nil]
    ELSE [p |-> e.p, node |-> HashLiteral(r.list)]))

\* for !p.curTokenIs(token.EOF) { parseStatement; append; nextToken }
RECURSIVE ParseProgramLoop(_, _)
ParseProgramLoop(ps, statements) ==
  IF ps.l.fault \/ curTokenIs(ps, token.EOF) THEN [p |-> ps, list |-> statements]
  ELSE With(parseStatement(ps), LAMBDA stmt :
         ParseProgramLoop(nextToken(stmt.p), Append(statements, stmt.node)))

\* Parser.ParseProgram: the parser after the call and the Program returned
\* (Nil when the call faulted instead of returning).
ParseProgram(ps) ==
  With(ParseProgramLoop(ps, <<>>), LAMBDA r :
    IF r.p.l.fault THEN [p |-> r.p, node |-> Nil]
    ELSE [p |-> r.p, node |-> Program(r.list)])

(***************************************************************************)
(* object (src/object/environment.go): an object is a record tagged by t.  *)
(* Objects that Go compares by pointer carry what tells two of them apart: *)
(* an Array and a Hash their place in the heap, a Function and a           *)
(* ReturnValue the number of their allocation.  Record equality is then    *)
(* Go's == on two object.Object interfaces wherever the evaluator uses it. *)
(***************************************************************************)
\* The object types.
object ==
  [ NULL_OBJ |-> "NULL", INTEGER_OBJ |-> "INTEGER",
    BOOLEAN_OBJ |-> "BOOLEAN", RETURN_VALUE_OBJ |-> "RETURN_VALUE",
    ERROR_OBJ |-> "ERROR", FUNCTION_OBJ |-> "FUNCTION",
    STRING_OBJ |-> "STRING", BUILTIN_OBJ |-> "BUILTIN",
    ARRAY_OBJ |-> "ARRAY", HASH_OBJ |-> "HASH" ]

\* The nil object.Object (no object).
NIL == [t |-> "nil"]

NULL == [t |-> object.NULL_OBJ]

TRUE_OBJ == [t |-> object.BOOLEAN_OBJ, b |-> TRUE]

FALSE_OBJ == [t |-> object.BOOLEAN_OBJ, b |-> FALSE]

Integer(value) == [t |-> object.INTEGER_OBJ, i |-> value]

String(value) == [t |-> object.STRING_OBJ, s |-> value]

Error(message) == [t |-> object.ERROR_OBJ, Message |-> message]

ReturnValueObj(id, value) == [t |-> object.RETURN_VALUE_OBJ, rid |-> id, rv |-> value]

Function(id, parameters, body, env) ==
  [t |-> object.FUNCTION_OBJ, fid |-> id, Parameters |-> parameters, Body |-> body,
   Env |-> env]

Builtin(name) == [t |-> object.BUILTIN_OBJ, name |-> name]

Array(ref) == [t |-> object.ARRAY_OBJ, a |-> ref]

Hash(ref) == [t |-> object.HASH_OBJ, h |-> ref]

\* A uint64 is its eight bytes, least significant first.
RECURSIVE Bytes(_, _)
Bytes(n, count) ==
  IF count = 0 THEN <<>> ELSE <<n % 256>> \o Bytes(n \div 256, count - 1)

\* uint64(i) of an int64 i: two's complement for a negative i.
Uint64(i) ==
  IF i >= 0 THEN Bytes(i, 8)
  ELSE LET m == Bytes(-i - 1, 8) IN [j \in 1..8 |-> 255 - m[j]]

RECURSIVE Xor(_, _)
Xor(x, y) ==
  IF x = 0 /\ y = 0 THEN 0
  ELSE (((x % 2) + (y % 2)) % 2) + 2 * Xor(x \div 2, y \div 2)

\* The character ` (code 96), which a TLA+ string cannot hold.
BACKQUOTE == "BACKQUOTE"

\* The printable ASCII characters from code 32 on.
Ascii ==
  << " ", "!", "\"", "#", "$", "%", "&", "'", "(", ")", "*", "+", ",", "-",
     ".", "/", "0", "1", "2", "3", "4", "5", "6", "7", "8", "9", ":", ";",
     "<", "=", ">", "?", "@", "A", "B", "C", "D", "E", "F", "G", "H", "I",
     "J", "K", "L", "M", "N", "O", "P", "Q", "R", "S", "T", "U", "V", "W",
     "X", "Y", "Z", "[", "\\", "]", "^", "_", BACKQUOTE,
     "a", "b", "c", "d", "e",
     "f", "g", "h", "i", "j", "k", "l", "m", "n", "o", "p", "q", "r", "s",
     "t", "u", "v", "w", "x", "y", "z", "{", "|", "}", "~" >>

ByteOf(ch) == 31 + (CHOOSE j \in 1..Len(Ascii) : Ascii[j] = ch)

\* hash/fnv's 64-bit offset basis 0xcbf29ce484222325 and prime 0x100000001b3.
FnvOffset64 == << 37, 35, 34, 132, 228, 156, 242, 203 >>

FnvPrime64 == << 179, 1, 0, 0, 0, 1, 0, 0 >>

\* Column j (1-based) of the product x * y before carries.
MulColumn(x, y, j) ==
  LET RECURSIVE Sum(_)
      Sum(i) == IF i = 0 THEN 0 ELSE x[i] * y[j - i + 1] + Sum(i - 1)
  IN Sum(j)

\* x * y modulo 2^64.
RECURSIVE MulFrom(_, _, _, _)
MulFrom(x, y, j, carry) ==
  IF j > 8 THEN <<>>
  ELSE LET acc == MulColumn(x, y, j) + carry
       IN <<acc % 256>> \o MulFrom(x, y, j + 1, acc \div 256)

Mul64(x, y) == MulFrom(x, y, 1, 0)

\* fnv.New64a(); h.Write(bytes); h.Sum64(): for each byte, xor then multiply.
RECURSIVE Fnv64a(_, _)
Fnv64a(hash, bytes) ==
  IF bytes = <<>> THEN hash
  ELSE LET next == Mul64([hash EXCEPT ![1] = Xor(hash[1], ByteOf(Head(bytes)))],
                         FnvPrime64)
       IN \* the product is computed before the next byte is read
          IF Len(next) = 8 THEN Fnv64a(next, Tail(bytes)) ELSE next

HashKeyOf(type, value) == [Type |-> type, HValue |-> value]

Hashable(obj) == obj.t \in { object.INTEGER_OBJ, object.BOOLEAN_OBJ, object.STRING_OBJ }

\* HashKey with one type for every key.
HashKeyUntyped(obj) ==
  CASE obj.t = object.INTEGER_OBJ -> HashKeyOf(object.INTEGER_OBJ, Uint64(obj.i))
    [] obj.t = object.BOOLEAN_OBJ ->
         HashKeyOf(object.INTEGER_OBJ, Uint64(IF obj.b THEN 1 ELSE 0))
    [] obj.t = object.STRING_OBJ ->
         HashKeyOf(object.INTEGER_OBJ, Fnv64a(FnvOffset64, obj.s))

\* Integer.HashKey, Boolean.HashKey, String.HashKey.
HashKey(obj) ==
  CASE obj.t = object.INTEGER_OBJ -> HashKeyOf(obj.t, Uint64(obj.i))
    [] obj.t = object.BOOLEAN_OBJ -> HashKeyOf(obj.t, Uint64(IF obj.b THEN 1 ELSE 0))
    [] obj.t = object.STRING_OBJ -> HashKeyOf(obj.t, Fnv64a(FnvOffset64, obj.s))

HashPair(hashed, key, value) == [hk |-> hashed, Key |-> key, Value |-> value]

(***************************************************************************)
(* The state an evaluation works on: the environments, arrays and hashes   *)
(* allocated so far (an *Environment, *Array or *Hash is its index), the   *)
(* number of Function and ReturnValue objects allocated, whether a Go      *)
(* panic has ended the evaluation (excused: by a division by zero or by a  *)
(* call with fewer arguments than parameters), the orders in which the     *)
(* successive ranges over a Go map visit its entries (ord[k] for the k-th  *)
(* range, chosen by the runtime), the number of ranges done, and the trace *)
(* of what the evaluation has done.                                        *)
(***************************************************************************)
EmptyStore == [n \in {} |-> NIL]

NewState(ord) ==
  [envs |-> <<>>, arrays |-> <<>>, hashes |-> <<>>, nobj |-> 0,
   fault |-> FALSE, excused |-> FALSE, ord |-> ord, ranges |-> 0,
   trace |-> <<>>]

Log(st, event) == [st EXCEPT !.trace = Append(@, event)]

\* What a function returns: the object and the state after the call.
Ret(obj, st) == [v |-> obj, st |-> st]

\* A Go panic: the evaluation ends without a result.
Panic(st) == Ret(NIL, [st EXCEPT !.fault = TRUE])

\* The two panics of a well-formed program that are the program's doing.
Excused(st) == [st EXCEPT !.excused = TRUE]

\* The environment's index and the state after the allocation.
NewEnvironment(st) ==
  [env |-> Len(st.envs) + 1,
   st |-> [st EXCEPT !.envs = Append(@, [store |-> EmptyStore, outer |-> 0])]]

\* A NewEnclosedEnvironment that returns the outer environment itself.
NewEnclosedEnvironmentShared(outer, st) == [env |-> outer, st |-> st]

NewEnclosedEnvironment(outer, st) ==
  LET r == NewEnvironment(st)
  IN [env |-> r.env, st |-> [r.st EXCEPT !.envs[r.env].outer = outer]]

\* A Get that searches the environment itself only.
GetOwn(env, name, st) ==
  LET e == st.envs[env]
  IN IF name \in DOMAIN e.store THEN [obj |-> e.store[name], ok |-> TRUE]
     ELSE [obj |-> NIL, ok |-> FALSE]

RECURSIVE Get(_, _, _)
Get(env, name, st) ==
  LET e == st.envs[env]
  IN IF name \in DOMAIN e.store THEN [obj |-> e.store[name], ok |-> TRUE]
     ELSE IF e.outer # 0 THEN Get(e.outer, name, st)
     ELSE [obj |-> NIL, ok |-> FALSE]

Set(env, name, val, st) ==
  LET store == st.envs[env].store
      store2 == [n \in DOMAIN store \cup { name } |->
                   IF n = name THEN val ELSE store[n]]
  IN Ret(val, Log([st EXCEPT !.envs[env].store = store2],
                  [e |-> "Set", env |-> env, name |-> name, val |-> val]))

NewArray(elements, st) ==
  Ret(Array(Len(st.arrays) + 1), [st EXCEPT !.arrays = Append(@, elements)])

NewHash(pairs, st) ==
  Ret(Hash(Len(st.hashes) + 1), [st EXCEPT !.hashes = Append(@, pairs)])

(***************************************************************************)
(* builtins (src/evaluator/builtins.go)                                    *)
(***************************************************************************)
builtinNames ==
  { <<"l", "e", "n">>, <<"f", "i", "r", "s", "t">>, <<"l", "a", "s", "t">>,
    <<"r", "e", "s", "t">>, <<"p", "u", "s", "h">>, <<"p", "u", "t", "s">>,
    <<"n", "o", "w">> }

\* What time.Now().Format("2006-01-02 15:04:05") returned: one reading of
\* the clock.
ClockReading ==
  << "2", "0", "0", "6", "-", "0", "1", "-", "0", "2", " ",
     "1", "5", ":", "0", "4", ":", "0", "5" >>

(***************************************************************************)
(* evaluator (src/evaluator/evaluator.go, builtins.go).  A function of the *)
(* source that returns an object is an operator that takes the state as    *)
(* its last argument and returns Ret(object, state after).  x.Type() on a  *)
(* nil x, an index out of range and a division by zero are Go panics.      *)
(***************************************************************************)
nativeBoolToBooleanObject(input) == IF input THEN TRUE_OBJ ELSE FALSE_OBJ

\* The message is the sequence of the pieces fmt.Sprintf puts together.
newError(message, st) ==
  Ret(Error(message), Log(st, [e |-> "newError", Message |-> message]))

\* An isError that finds no error.
isErrorNever(obj) == FALSE

isError(obj) == IF obj # NIL THEN obj.t = object.ERROR_OBJ ELSE FALSE

isTruthy(obj) ==
  CASE obj = NULL -> FALSE
    [] obj = TRUE_OBJ -> TRUE
    [] obj = FALSE_OBJ -> FALSE
    [] OTHER -> TRUE

evalBangOperatorExpression(right) ==
  CASE right = TRUE_OBJ -> FALSE_OBJ
    [] right = FALSE_OBJ -> TRUE_OBJ
    [] right = NULL -> TRUE_OBJ
    [] OTHER -> FALSE_OBJ

evalMinusPrefixOperatorExpression(right, st) ==
  IF right = NIL THEN Panic(st)
  ELSE IF right.t # object.INTEGER_OBJ
    THEN newError(<<"unknon operator: -", right.t>>, st)
  ELSE Ret(Integer(-right.i), st)

evalPrefix(operator, right, st) ==
  CASE operator = <<"!">> -> Ret(evalBangOperatorExpression(right), st)
    [] operator = <<"-">> -> evalMinusPrefixOperatorExpression(right, st)
    [] OTHER ->
         IF right = NIL THEN Panic(st)
         ELSE newError(<<"unknown operator: ">> \o operator \o <<" ", right.t>>, st)

\* Go's integer division truncates toward zero.
Quotient(x, y) ==
  LET ax == IF x < 0 THEN -x ELSE x
      ay == IF y < 0 THEN -y ELSE y
      q == ax \div ay
  IN IF (x < 0) = (y < 0) THEN q ELSE -q

unknownOperator(left, operator, right, st) ==
  newError(<<"unknown operator: ", left.t, " ">> \o operator \o <<" ", right.t>>, st)

\* Both operands are Integers.  Values stay far below the 64-bit range.
evalIntegerInfixExpression(operator, left, right, st) ==
  LET leftVal == left.i
      rightVal == right.i
  IN CASE operator = <<"+">> -> Ret(Integer(leftVal + rightVal), st)
       [] operator = <<"-">> -> Ret(Integer(leftVal - rightVal), st)
       [] operator = <<"*">> -> Ret(Integer(leftVal * rightVal), st)
       [] operator = <<"/">> ->
            IF rightVal = 0 THEN Panic(Excused(st))
            ELSE Ret(Integer(Quotient(leftVal, rightVal)), st)
       [] operator = <<"<">> -> Ret(nativeBoolToBooleanObject(leftVal < rightVal), st)
       [] operator = <<">">> -> Ret(nativeBoolToBooleanObject(leftVal > rightVal), st)
       [] operator = <<"=", "=">> ->
            Ret(nativeBoolToBooleanObject(leftVal = rightVal), st)
       [] operator = <<"!", "=">> ->
            Ret(nativeBoolToBooleanObject(leftVal # rightVal), st)
       [] OTHER -> unknownOperator(left, operator, right, st)

evalStringInfixExpression(operator, left, right, st) ==
  IF operator # <<"+">>
    THEN newError(<<"unknow operator: ", left.t, " ">> \o operator
                    \o <<" ", right.t>>, st)
    ELSE Ret(String(left.s \o right.s), st)

\* left.Type() is called first; right.Type() is called when left is an
\* Integer or a String, and for the message of the default case.
evalInfixExpression(operator, left, right, st) ==
  IF left = NIL THEN Panic(st)
  ELSE IF left.t \in { object.INTEGER_OBJ, object.STRING_OBJ } /\ right = NIL THEN Panic(st)
  ELSE IF left.t = object.INTEGER_OBJ /\ right.t = object.INTEGER_OBJ
    THEN evalIntegerInfixExpression(operator, left, right, st)
  ELSE IF left.t = object.STRING_OBJ /\ right.t = object.STRING_OBJ
    THEN evalStringInfixExpression(operator, left, right, st)
  ELSE IF operator = <<"=", "=">>
    THEN Ret(nativeBoolToBooleanObject(left = right), st)
  ELSE IF operator = <<"!", "=">>
    THEN Ret(nativeBoolToBooleanObject(left # right), st)
  ELSE IF right = NIL THEN Panic(st)
  ELSE unknownOperator(left, operator, right, st)

evalArrayIndexExpression(array, index, st) ==
  LET elements == st.arrays[array.a]
      idx == index.i
      max == Len(elements) - 1
  IN IF idx < 0 \/ idx > max THEN Ret(NULL, st) ELSE Ret(elements[idx + 1], st)

evalHashIndexExpression(hash, index, st) ==
  LET pairs == st.hashes[hash.h]
  IN IF index = NIL THEN Panic(st)
     ELSE IF ~Hashable(index)
       THEN newError(<<"unusable as hash key: ", index.t>>, st)
     ELSE IF \E pair \in pairs : pair.hk = HashKey(index)
       THEN Ret((CHOOSE pair \in pairs : pair.hk = HashKey(index)).Value, st)
     ELSE Ret(NULL, st)

evalIndexExpression(left, index, st) ==
  IF left = NIL THEN Panic(st)
  ELSE IF left.t = object.ARRAY_OBJ /\ index = NIL THEN Panic(st)
  ELSE IF left.t = object.ARRAY_OBJ /\ index.t = object.INTEGER_OBJ
    THEN evalArrayIndexExpression(left, index, st)
  ELSE IF left.t = object.HASH_OBJ THEN evalHashIndexExpression(left, index, st)
  ELSE newError(<<"index operator not supported: ", left.t>>, st)

evalIdentifer(node, env, st) ==
  LET r == Get(env, node.Value, st)
  IN IF r.ok THEN Ret(r.obj, st)
     ELSE IF node.Value \in builtinNames THEN Ret(Builtin(node.Value), st)
     ELSE newError(<<"idenfier not found: ">> \o node.Value, st)

unwrapReturnValue(obj) ==
  IF obj # NIL /\ obj.t = object.RETURN_VALUE_OBJ THEN obj.rv ELSE obj

\* arg.Inspect() dereferences a nil object, and the objects inside a
\* ReturnValue, an Array and a Hash.
RECURSIVE InspectFaults(_, _)
InspectFaults(obj, st) ==
  CASE obj = NIL -> TRUE
    [] obj.t = object.RETURN_VALUE_OBJ -> InspectFaults(obj.rv, st)
    [] obj.t = object.ARRAY_OBJ ->
         \E j \in 1..Len(st.arrays[obj.a]) : InspectFaults(st.arrays[obj.a][j], st)
    [] obj.t = object.HASH_OBJ ->
         \E pair \in st.hashes[obj.h] :
           InspectFaults(pair.Key, st) \/ InspectFaults(pair.Value, st)
    [] OTHER -> FALSE

wrongNumberOfArguments(got, want, st) ==
  newError(<<"wrong number of arguments. got=", ToString(got), ", want=", want>>, st)

builtinLen(args, st) ==
  IF Len(args) # 1 THEN wrongNumberOfArguments(Len(args), "1", st)
  ELSE IF args[1] = NIL THEN Panic(st)
  ELSE CASE args[1].t = object.ARRAY_OBJ -> Ret(Integer(Len(st.arrays[args[1].a])), st)
         [] args[1].t = object.STRING_OBJ -> Ret(Integer(Len(args[1].s)), st)
         [] args[1].t = object.HASH_OBJ -> Ret(Integer(Cardinality(st.hashes[args[1].h])), st)
         [] OTHER ->
              newError(<<"argument to ", BACKQUOTE, "len", BACKQUOTE,
                         " not supported, got=", args[1].t>>, st)

mustBeArray(name, arg, st) ==
  newError(<<"argument to ", BACKQUOTE, name, BACKQUOTE, " must be ARRAY, got ",
             arg.t>>, st)

builtinFirst(args, st) ==
  IF Len(args) # 1 THEN wrongNumberOfArguments(Len(args), "1", st)
  ELSE IF args[1] = NIL THEN Panic(st)
  ELSE IF args[1].t # object.ARRAY_OBJ THEN mustBeArray("first", args[1], st)
  ELSE LET elements == st.arrays[args[1].a]
       IN IF Len(elements) > 0 THEN Ret(elements[1], st) ELSE Ret(NULL, st)

builtinLast(args, st) ==
  IF Len(args) # 1 THEN wrongNumberOfArguments(Len(args), "1", st)
  ELSE IF args[1] = NIL THEN Panic(st)
  ELSE IF args[1].t # object.ARRAY_OBJ THEN mustBeArray("last", args[1], st)
  ELSE LET elements == st.arrays[args[1].a]
           length == Len(elements)
       IN IF length > 0 THEN Ret(elements[length], st) ELSE Ret(NULL, st)

builtinRest(args, st) ==
  IF Len(args) # 1 THEN wrongNumberOfArguments(Len(args), "1", st)
  ELSE IF args[1] = NIL THEN Panic(st)
  ELSE IF args[1].t # object.ARRAY_OBJ THEN mustBeArray("rest", args[1], st)
  ELSE LET elements == st.arrays[args[1].a]
           length == Len(elements)
       IN IF length > 0 THEN NewArray(SubSeq(elements, 2, length), st)
          ELSE Ret(NULL, st)

\* A push that appends the value to the array itself and returns that array.
builtinPushInPlace(args, st) ==
  IF Len(args) # 2 THEN wrongNumberOfArguments(Len(args), "1", st)
  ELSE IF args[1] = NIL THEN Panic(st)
  ELSE IF args[1].t # object.ARRAY_OBJ THEN mustBeArray("push", args[1], st)
  ELSE Ret(args[1], [st EXCEPT !.arrays[args[1].a] = Append(@, args[2])])

\* A push that puts the value before the elements.
builtinPushFront(args, st) ==
  IF Len(args) # 2 THEN wrongNumberOfArguments(Len(args), "1", st)
  ELSE IF args[1] = NIL THEN Panic(st)
  ELSE IF args[1].t # object.ARRAY_OBJ THEN mustBeArray("push", args[1], st)
  ELSE NewArray(<<args[2]>> \o st.arrays[args[1].a], st)

builtinPush(args, st) ==
  IF Len(args) # 2 THEN wrongNumberOfArguments(Len(args), "1", st)
  ELSE IF args[1] = NIL THEN Panic(st)
  ELSE IF args[1].t # object.ARRAY_OBJ THEN mustBeArray("push", args[1], st)
  ELSE NewArray(Append(st.arrays[args[1].a], args[2]), st)

RECURSIVE builtinPuts(_, _)
builtinPuts(args, st) ==
  IF args = <<>> THEN Ret(NULL, st)
  ELSE IF InspectFaults(Head(args), st) THEN Panic(st)
  ELSE builtinPuts(Tail(args), Log(st, [e |-> "puts", val |-> Head(args)]))

builtinNow(args, st) ==
  IF Len(args) # 0
    THEN newError(<<"too many parameters, expect :0, given :", ToString(Len(args))>>, st)
    ELSE Ret(String(ClockReading), st)

\* fn.Fn(args...)
callBuiltin(fn, args, st) ==
  CASE fn.name = <<"l", "e", "n">> -> builtinLen(args, st)
    [] fn.name = <<"f", "i", "r", "s", "t">> -> builtinFirst(args, st)
    [] fn.name = <<"l", "a", "s", "t">> -> builtinLast(args, st)
    [] fn.name = <<"r", "e", "s", "t">> -> builtinRest(args, st)
    [] fn.name = <<"p", "u", "s", "h">> -> builtinPush(args, st)
    [] fn.name = <<"p", "u", "t", "s">> -> builtinPuts(args, st)
    [] fn.name = <<"n", "o", "w">> -> builtinNow(args, st)

\* A bindParameters that binds a parameter with no argument to null.
RECURSIVE bindParametersOrNull(_, _, _, _, _)
bindParametersOrNull(parameters, args, paramIdx, env, st) ==
  IF paramIdx > Len(parameters) THEN st
  ELSE bindParametersOrNull(
         parameters, args, paramIdx + 1, env,
         Set(env, parameters[paramIdx].Value,
             IF paramIdx > Len(args) THEN NULL ELSE args[paramIdx], st).st)

\* for paramIdx, param := range fn.Parameters { env.Set(param.Value, args[paramIdx]) }
RECURSIVE bindParameters(_, _, _, _, _)
bindParameters(parameters, args, paramIdx, env, st) ==
  IF paramIdx > Len(parameters) THEN st
  ELSE IF paramIdx > Len(args) THEN Panic(Excused(st)).st
  ELSE bindParameters(parameters, args, paramIdx + 1, env,
                      Set(env, parameters[paramIdx].Value, args[paramIdx], st).st)

\* An extendFunctionEnv that binds the parameters in the function's own
\* environment instead of a new enclosed one.
extendFunctionEnvInPlace(fn, args, st) ==
  [env |-> fn.Env, st |-> bindParameters(fn.Parameters, args, 1, fn.Env, st)]

\* The environment's index and the state after the call.
extendFunctionEnv(fn, args, st) ==
  LET r == NewEnclosedEnvironment(fn.Env, st)
  IN [env |-> r.env, st |-> bindParameters(fn.Parameters, args, 1, r.env, r.st)]

\* The entries 1..n in the order of their places in the permutation perm.
RECURSIVE Restrict(_, _)
Restrict(perm, n) ==
  IF perm = <<>> THEN <<>>
  ELSE IF Head(perm) <= n THEN <<Head(perm)>> \o Restrict(Tail(perm), n)
  ELSE Restrict(Tail(perm), n)

\* The order in which the next range visits a map of n entries: the
\* runtime's choice, and the order of insertion once its choices are used up
\* or for a map larger than they cover.
RangeOrder(st, n) ==
  IF st.ranges < Len(st.ord) /\ n <= Len(st.ord[st.ranges + 1])
    THEN Restrict(st.ord[st.ranges + 1], n)
    ELSE [j \in 1..n |-> j]

RECURSIVE Eval(_, _, _), evalProgram(_, _, _), evalProgramLoop(_, _, _, _, _)
RECURSIVE evalBlockStatement(_, _, _), evalBlockLoop(_, _, _, _, _)
RECURSIVE evalIfExpression(_, _, _), evalExpressions(_, _, _)
RECURSIVE evalExpressionsLoop(_, _, _, _, _), applyFunction(_, _, _)
RECURSIVE evalHashLiteral(_, _, _), evalHashLoop(_, _, _, _, _, _)
RECURSIVE evalExpressionsLoopOn(_, _, _, _, _)

Eval(node, env, st0) ==
  LET st == Log(st0, [e |-> "Eval", k |-> node.k, env |-> env])
  IN
  CASE node.k = "Program" -> evalProgram(node, env, st)
    [] node.k = "ExpressionStatement" -> Eval(node.Expression, env, st)
    [] node.k = "BlockStatement" -> evalBlockStatement(node, env, st)
    [] node.k = "IntegerLiteral" -> Ret(Integer(node.Int), st)
    [] node.k = "Boolean" -> Ret(nativeBoolToBooleanObject(node.Bool), st)
    [] node.k = "StringLiteral" -> Ret(String(node.Str), st)
    [] node.k = "PrefixExpression" ->
         LET right == Eval(node.Right, env, st)
         IN IF right.st.fault \/ isError(right.v) THEN right
            ELSE evalPrefix(node.Operator, right.v, right.st)
    [] node.k = "InfixExpression" ->
         LET left == Eval(node.Left, env, st)
         IN IF left.st.fault \/ isError(left.v) THEN left
            ELSE LET right == Eval(node.Right, env, left.st)
                 IN IF right.st.fault \/ isError(right.v) THEN right
                    ELSE evalInfixExpression(node.Operator, left.v, right.v, right.st)
    [] node.k = "IfExpression" -> evalIfExpression(node, env, st)
    [] node.k = "ReturnStatement" ->
         LET val == Eval(node.ReturnValue, env, st)
         IN IF val.st.fault \/ isError(val.v) THEN val
            ELSE LET obj == ReturnValueObj(val.st.nobj + 1, val.v)
                 IN Ret(obj, Log([val.st EXCEPT !.nobj = @ + 1],
                                 [e |-> "Return", env |-> env, val |-> val.v]))
    [] node.k = "LetStatement" ->
         IF "nilptr" \in DOMAIN node THEN Panic(st)
         ELSE LET val == Eval(node.LetValue, env, st)
              IN IF val.st.fault \/ isError(val.v) THEN val
                 ELSE Set(env, node.Name.Value, val.v, val.st)
    [] node.k = "Identifier" -> evalIdentifer(node, env, st)
    [] node.k = "FunctionLiteral" ->
         Ret(Function(st.nobj + 1, node.Parameters, node.Body, env),
             [st EXCEPT !.nobj = @ + 1])
    [] node.k = "CallExpression" ->
         LET function == Eval(node.Function, env, st)
         IN IF function.st.fault \/ isError(function.v) THEN function
            ELSE LET args == evalExpressions(node.Arguments, env, function.st)
                 IN IF args.st.fault THEN Panic(args.st)
                    ELSE IF Len(args.list) = 1 /\ isError(args.list[1])
                      THEN Ret(args.list[1], args.st)
                    ELSE applyFunction(function.v, args.list, args.st)
    [] node.k = "ArrayLiteral" ->
         LET elements == evalExpressions(node.Elements, env, st)
         IN IF elements.st.fault THEN Panic(elements.st)
            ELSE IF Len(elements.list) = 1 /\ isError(elements.list[1])
              THEN Ret(elements.list[1], elements.st)
            ELSE NewArray(elements.list, elements.st)
    [] node.k = "IndexExpression" ->
         LET left == Eval(node.Left, env, st)
         IN IF left.st.fault \/ isError(left.v) THEN left
            ELSE LET index == Eval(node.Index, env, left.st)
                 IN IF index.st.fault \/ isError(index.v) THEN index
                    ELSE evalIndexExpression(left.v, index.v, index.st)
    [] node.k = "HashLiteral" -> evalHashLiteral(node, env, st)
    [] OTHER -> Ret(NIL, st)

applyFunction(fn, args, st0) ==
  IF fn = NIL THEN Panic(st0)
  ELSE LET st == Log(st0, [e |-> "Call", args |-> args])
       IN
       CASE fn.t = object.FUNCTION_OBJ ->
              LET ext == extendFunctionEnv(fn, args, st)
              IN IF ext.st.fault THEN Panic(ext.st)
                 ELSE LET evaluated ==
                            Eval(fn.Body, ext.env,
                                 Log(ext.st, [e |-> "Apply", env |-> ext.env]))
                      IN IF evaluated.st.fault THEN evaluated
                         ELSE LET val == unwrapReturnValue(evaluated.v)
                              IN Ret(val, Log(evaluated.st,
                                              [e |-> "Applied", env |-> ext.env,
                                               val |-> val]))
         [] fn.t = object.BUILTIN_OBJ -> callBuiltin(fn, args, st)
         [] OTHER -> newError(<<"not a function ", fn.t>>, st)

\* The loop of evalExpressions from expression j on: the list returned and
\* the state after.
\* An evalExpressions loop that goes on after an error.
evalExpressionsLoopOn(exps, j, env, result, st) ==
  IF j > Len(exps) THEN [list |-> result, st |-> st]
  ELSE LET evaluated == Eval(exps[j], env, st)
       IN IF evaluated.st.fault THEN [list |-> <<>>, st |-> evaluated.st]
          ELSE evalExpressionsLoopOn(exps, j + 1, env, Append(result, evaluated.v),
                                     evaluated.st)

evalExpressionsLoop(exps, j, env, result, st) ==
  IF j > Len(exps) THEN [list |-> result, st |-> st]
  ELSE LET evaluated == Eval(exps[j], env, st)
       IN IF evaluated.st.fault THEN [list |-> <<>>, st |-> evaluated.st]
          ELSE IF isError(evaluated.v)
            THEN [list |-> <<evaluated.v>>, st |-> evaluated.st]
          ELSE evalExpressionsLoop(exps, j + 1, env, Append(result, evaluated.v),
                                   evaluated.st)

evalExpressions(exps, env, st) == evalExpressionsLoop(exps, 1, env, <<>>, st)

\* The loop of evalProgram from statement j on; result is the value of the
\* statement before (nil at first).
evalProgramLoop(statements, j, env, result, st) ==
  IF j > Len(statements) THEN Ret(result, st)
  ELSE LET r == Eval(statements[j], env, st)
       IN IF r.st.fault THEN r
          ELSE IF r.v # NIL /\ r.v.t = object.RETURN_VALUE_OBJ THEN Ret(r.v.rv, r.st)
          ELSE IF r.v # NIL /\ r.v.t = object.ERROR_OBJ THEN r
          ELSE evalProgramLoop(statements, j + 1, env, r.v, r.st)

evalProgram(program_, env, st) ==
  evalProgramLoop(program_.Statements, 1, env, NIL, st)

\* The loop of evalBlockStatement; result.Type() faults on a nil result.
evalBlockLoop(statements, j, env, result, st) ==
  IF j > Len(statements) THEN Ret(result, st)
  ELSE LET r == Eval(statements[j], env, st)
       IN IF r.st.fault THEN r
          ELSE IF r.v = NIL THEN Panic(r.st)
          ELSE IF r.v.t = object.RETURN_VALUE_OBJ \/ r.v.t = object.ERROR_OBJ THEN r
          ELSE evalBlockLoop(statements, j + 1, env, r.v, r.st)

evalBlockStatement(block, env, st) ==
  evalBlockLoop(block.Statements, 1, env, NIL, st)

evalIfExpression(ie, env, st) ==
  LET condition == Eval(ie.Condition, env, st)
  IN IF condition.st.fault \/ isError(condition.v) THEN condition
     ELSE IF isTruthy(condition.v) THEN Eval(ie.Consequence, env, condition.st)
     ELSE IF ie.Alternative # Nil THEN Eval(ie.Alternative, env, condition.st)
     ELSE Ret(NULL, condition.st)

\* pairs[hashed] = HashPair{key, value}
PutHashPair(pairs, hashed, key, value) ==
  { pair \in pairs : pair.hk # hashed } \cup { HashPair(hashed, key, value) }

\* The range over node.Pairs, in the runtime's order, from the j-th entry
\* visited on.
evalHashLoop(astPairs, order, j, env, pairs, st) ==
  IF j > Len(astPairs) THEN NewHash(pairs, st)
  ELSE
  LET keyNode == astPairs[order[j]][1]
      valueNode == astPairs[order[j]][2]
      key == Eval(keyNode, env, st)
  IN IF key.st.fault \/ isError(key.v) THEN key
     ELSE IF key.v = NIL THEN Panic(key.st)
     ELSE IF ~Hashable(key.v)
       THEN newError(<<"unusable as hash key: ", key.v.t>>, key.st)
     ELSE
  LET value == Eval(valueNode, env, key.st)
  IN IF value.st.fault \/ isError(value.v) THEN value
     ELSE evalHashLoop(astPairs, order, j + 1, env,
                       PutHashPair(pairs, HashKey(key.v), key.v, value.v),
                       value.st)

evalHashLiteral(node, env, st) ==
  evalHashLoop(node.Pairs, RangeOrder(st, Len(node.Pairs)), 1, env, {},
               [st EXCEPT !.ranges = @ + 1])

(***************************************************************************)
(* The lexer driven by successive NextToken calls.                         *)
(***************************************************************************)
LexAlphabet == { "a", "1", "\"", " ", "=", "!", ";", "@" }

RECURSIVE SeqsUpTo(_, _)
SeqsUpTo(S, n) ==
  IF n = 0 THEN { <<>> }
  ELSE LET shorter == SeqsUpTo(S, n - 1)
       IN shorter \cup { Append(s, x) : s \in shorter, x \in S }

\* The words one after the other.
RECURSIVE Cat(_)
Cat(words) == IF words = <<>> THEN <<>> ELSE Head(words) \o Cat(Tail(words))

LexInputs == SeqsUpTo(LexAlphabet, MaxLexLen)

Idle == [idle |-> TRUE]

LexInit ==
  /\ \E input \in LexInputs : l = LexerNew(input)
  /\ tokens = <<>>
  /\ p = Idle
  /\ program = Idle
  /\ root = Idle
  /\ outcome = Idle

LexNextToken ==
  /\ ~l.fault
  /\ Len(tokens) < MaxLexLen + MaxLexCalls
  /\ l.readPosition < MaxInt
  /\ LET r == NextToken(l)
     IN /\ l' = r.l
        /\ tokens' = Append(tokens, r.tok)
  /\ UNCHANGED <<p, program, root, outcome>>

LexNext == LexNextToken

LexSpec == LexInit /\ [][LexNext]_vars

(***************************************************************************)
(* C1: every NextToken call returns a token, and once the input is         *)
(* exhausted the call returns EOF, as does every later call; also for an   *)
(* input that ends inside a string literal.  As a state predicate: no call *)
(* has faulted (a faulted call returned no token), the token after an EOF  *)
(* token is EOF, and a lexer that has moved past the end of its input has  *)
(* returned EOF last.                                                      *)
(***************************************************************************)
C1_NextTokenReturnsEOF ==
  /\ ~l.fault
  /\ \A i \in 1..Len(tokens) : tokens[i] # NoToken
  /\ \A i \in 1..Len(tokens) : \A j \in i..Len(tokens) :
       tokens[i].Type = token.EOF => tokens[j].Type = token.EOF
  /\ (tokens # <<>> /\ l.position > Len(l.input))
       => tokens[Len(tokens)].Type = token.EOF

\* A source made only of valid tokens and whitespace: every string literal
\* is closed and no character outside the string literals is one that no
\* token begins with.
RECURSIVE ValidSource(_, _)
ValidSource(text, inString) ==
  IF text = <<>> THEN ~inString
  ELSE IF Head(text) = "\"" THEN ValidSource(Tail(text), ~inString)
  ELSE IF ~inString /\ Head(text) = "@" THEN FALSE
  ELSE ValidSource(Tail(text), inString)

\* The source with its whitespace removed.
WithoutWhitespace(text) == SelectSeq(text, LAMBDA ch : ~isWhitespace(ch))

\* The source with the whitespace outside its string literals removed.
RECURSIVE WithoutOuterWhitespace(_, _)
WithoutOuterWhitespace(text, inString) ==
  IF text = <<>> THEN <<>>
  ELSE IF Head(text) = "\""
    THEN <<Head(text)>> \o WithoutOuterWhitespace(Tail(text), ~inString)
  ELSE IF ~inString /\ isWhitespace(Head(text))
    THEN WithoutOuterWhitespace(Tail(text), inString)
  ELSE <<Head(text)>> \o WithoutOuterWhitespace(Tail(text), inString)

\* The literals of the tokens, one after the other.
Literals(toks) == Cat([i \in 1..Len(toks) |-> toks[i].Literal])

\* The same with the literal of every STRING token between two quotes.
QuotedLiterals(toks) ==
  Cat([i \in 1..Len(toks) |->
         IF toks[i].Type = token.STRING_
           THEN <<"\"">> \o toks[i].Literal \o <<"\"">>
           ELSE toks[i].Literal])

\* NextToken has returned EOF for a valid source.
LexedToEOF ==
  /\ tokens # <<>>
  /\ tokens[Len(tokens)].Type = token.EOF
  /\ ValidSource(l.input, FALSE)

(***************************************************************************)
(* C12 as stated: for every source made only of valid tokens and           *)
(* whitespace, string literals included, the literals of the tokens        *)
(* returned by the NextToken calls up to EOF, concatenated, are the source *)
(* with its whitespace removed.                                            *)
(***************************************************************************)
C12_LiteralsGiveSource ==
  LexedToEOF => Literals(tokens) = WithoutWhitespace(l.input)

(***************************************************************************)
(* C12 amended: for every source made only of valid tokens and whitespace, *)
(* the literals of the tokens returned by the NextToken calls up to EOF,   *)
(* the literal of each STRING token put back between its two quotes,       *)
(* concatenated, are the source with the whitespace outside its string     *)
(* literals removed.                                                       *)
(***************************************************************************)
C12_QuotedLiteralsGiveSource ==
  LexedToEOF => QuotedLiterals(tokens) = WithoutOuterWhitespace(l.input, FALSE)

\* EOF was returned for a source with a string literal and whitespace.
C12_Witness ==
  /\ LexedToEOF
  /\ \E i \in 1..Len(tokens) : tokens[i].Type = token.STRING_
  /\ \E j \in 1..Len(l.input) : isWhitespace(l.input[j])

(***************************************************************************)
(* The parser run on a source text: parser.New(lexer.New(input)), then     *)
(* ParseProgram.                                                           *)
(***************************************************************************)
\* The operator's literal: its characters.
Op(operator) ==
  CASE operator = "==" -> <<"=", "=">>
    [] operator = "!=" -> <<"!", "=">>
    [] OTHER -> <<operator>>

ParseWords ==
  { <<"l", "e", "t", " ", "a", "=">>, <<"r", "e", "t", "u", "r", "n", " ">>,
    <<"a">>, <<"1">>, <<";">>, <<"+">>, <<"f", "n", "(", ")", "{">>,
    <<"i", "f", "(", "a", ")", "{">>, <<"}">>, <<"(">>, <<")">> }

MaxChain == 4

InfixOperators == { "+", "-", "*", "/", "==", "!=", "<", ">" }

OperandNames == <<"a", "b", "c", "d", "e", "f">>

\* The text `a op b op c ...' of n operands.
RECURSIVE Chain(_, _)
Chain(op, n) ==
  IF n = 1 THEN <<OperandNames[1]>>
  ELSE Chain(op, n - 1) \o Op(op) \o <<OperandNames[n]>>

\* a op (b op (c ...)) from operand j to operand n.
RECURSIVE RightNested(_, _, _)
RightNested(op, j, n) ==
  IF j = n THEN Identifier(<<OperandNames[n]>>)
  ELSE InfixExpression(Op(op), Identifier(<<OperandNames[j]>>),
                       RightNested(op, j + 1, n))

\* ((a op b) op c) ... of n operands.
RECURSIVE LeftNested(_, _)
LeftNested(op, n) ==
  IF n = 1 THEN Identifier(<<OperandNames[1]>>)
  ELSE InfixExpression(Op(op), LeftNested(op, n - 1),
                       Identifier(<<OperandNames[n]>>))

ChainInputs == { Chain(op, n) : op \in InfixOperators, n \in 2..MaxChain }

\* The level of a binary operator in the table of precedences.
OperatorLevel(op) ==
  CASE op \in { "==", "!=" } -> EQUALS
    [] op \in { "<", ">" } -> LESSGREATER
    [] op \in { "+", "-" } -> SUM
    [] op \in { "*", "/" } -> PRODUCT

\* Two binary operators of different levels.
MixedPairs ==
  { pair \in InfixOperators \X InfixOperators :
      OperatorLevel(pair[1]) # OperatorLevel(pair[2]) }

\* Texts without parentheses in which two operators of different levels are
\* neighbours, each with the expression in which the higher one binds tighter:
\* a op1 b op2 c, -a op b, !a op b, !-a, a op b(c), -a(b), a op b[c], -a[b],
\* a(b)[c].
MixedCases ==
  LET a == Identifier(<<"a">>)
      b == Identifier(<<"b">>)
      c == Identifier(<<"c">>)
  IN { <<<<"a">> \o Op(pair[1]) \o <<"b">> \o Op(pair[2]) \o <<"c">>,
         IF OperatorLevel(pair[1]) > OperatorLevel(pair[2])
           THEN InfixExpression(Op(pair[2]),
                                InfixExpression(Op(pair[1]), a, b), c)
           ELSE InfixExpression(Op(pair[1]), a,
                                InfixExpression(Op(pair[2]), b, c))>> :
         pair \in MixedPairs }
       \cup { <<<<pre, "a">> \o Op(op) \o <<"b">>,
                InfixExpression(Op(op), PrefixExpression(<<pre>>, a), b)>> :
                pre \in { "-", "!" }, op \in InfixOperators }
       \cup { <<<<"!", "-", "a">>,
                PrefixExpression(<<"!">>, PrefixExpression(<<"-">>, a))>> }
       \cup { <<<<"a">> \o Op(op) \o <<"b", "(", "c", ")">>,
                InfixExpression(Op(op), a, CallExpression(b, <<c>>))>> :
                op \in InfixOperators }
       \cup { <<<<"a">> \o Op(op) \o <<"b", "[", "c", "]">>,
                InfixExpression(Op(op), a, IndexExpression(b, c))>> :
                op \in InfixOperators }
       \cup { <<<<"-", "a", "(", "b", ")">>,
                PrefixExpression(<<"-">>, CallExpression(a, <<b>>))>>,
              <<<<"-", "a", "[", "b", "]">>,
                PrefixExpression(<<"-">>, IndexExpression(a, b))>>,
              <<<<"a", "(", "b", ")", "[", "c", "]">>,
                IndexExpression(CallExpression(a, <<b>>), c)>> }

\* Texts with a parenthesised group, each with the expression in which the
\* group is one operand: (a op1 b) op2 c and a op1 (b op2 c).
GroupCases ==
  LET a == Identifier(<<"a">>)
      b == Identifier(<<"b">>)
      c == Identifier(<<"c">>)
  IN { <<<<"(", "a">> \o Op(pair[1]) \o <<"b", ")">> \o Op(pair[2]) \o <<"c">>,
         InfixExpression(Op(pair[2]), InfixExpression(Op(pair[1]), a, b), c)>> :
         pair \in InfixOperators \X InfixOperators }
       \cup { <<<<"a">> \o Op(pair[1]) \o <<"(", "b">> \o Op(pair[2]) \o <<"c", ")">>,
                InfixExpression(Op(pair[1]), a,
                                InfixExpression(Op(pair[2]), b, c))>> :
                pair \in InfixOperators \X InfixOperators }

PrecedenceCases == MixedCases \cup GroupCases

PrecedenceInputs == { case[1] : case \in PrecedenceCases }

\* Most digits of an integer literal.
MaxDigits == 3

\* Runs of decimal digits, leading zeros included.
DigitInputs == SeqsUpTo({ "0", "1", "7", "8" }, MaxDigits) \ { <<>> }

\* The texts whose reading stays within the lexer's int: ParseProgram reads
\* two tokens past the end of the text.
Indexable(texts) == { text \in texts : Len(text) + 3 <= MaxInt }

ParseInputs ==
  Indexable({ Cat(ws) : ws \in SeqsUpTo(ParseWords, MaxWords) }
              \cup ChainInputs \cup PrecedenceInputs \cup DigitInputs)

ParseInit ==
  /\ \E input \in ParseInputs : p = ParserNew(LexerNew(input))
  /\ program = Idle
  /\ l = Idle
  /\ tokens = <<>>
  /\ root = Idle
  /\ outcome = Idle

ParseProgramCall ==
  /\ program = Idle
  /\ LET r == ParseProgram(p)
     IN /\ p' = r.p
        /\ program' = r.node
  /\ UNCHANGED <<l, tokens, root, outcome>>

ParseNext == ParseProgramCall

ParseSpec == ParseInit /\ [][ParseNext]_vars

(***************************************************************************)
(* C2: for every input ParseProgram returns a Program and the error list   *)
(* without a host fault; a let or return statement with no `;' before the  *)
(* end of input, and a block never closed, end at EOF.                     *)
(***************************************************************************)
C2_ParseProgramReturns ==
  program # Idle => (~p.l.fault /\ program.k = "Program")

(***************************************************************************)
(* C10: a chain of `+' parses right-nested, a + (b + c), and a chain of    *)
(* any other single binary operator left-nested, (a - b) - c: for every    *)
(* operator and every chain of 2 to MaxChain operands, ParseProgram        *)
(* returns, with no error, the one expression statement so nested.         *)
(***************************************************************************)
C10_ChainNesting ==
  program # Idle =>
    \A op \in InfixOperators : \A n \in 2..MaxChain :
      p.l.input = Chain(op, n) =>
        /\ p.errors = <<>>
        /\ program =
             Program(<<ExpressionStatement(IF op = "+" THEN RightNested(op, 1, n)
                                           ELSE LeftNested(op, n))>>)

\* ParseProgram has returned for a + b + c and for a - b - c - d.
C10_Witness ==
  /\ program # Idle
  /\ p.l.input \in { Chain("+", 3), Chain("-", MaxChain) }
  /\ p.errors = <<>>

(***************************************************************************)
(* C11: in an expression without parentheses the operator of the higher    *)
(* level binds tighter than a neighbouring operator of a lower level,      *)
(* whichever of the two comes first (also when the lower one is `+'), in   *)
(* the order EQUALS < LESSGREATER < SUM < PRODUCT < PREFIX < CALL < INDEX;  *)
(* and a parenthesised group is parsed as one operand.  For every such     *)
(* text ParseProgram returns, with no error, the one expression statement  *)
(* so nested.                                                              *)
(***************************************************************************)
C11_HigherBindsTighter ==
  program # Idle =>
    \A case \in PrecedenceCases :
      p.l.input = case[1] =>
        /\ p.errors = <<>>
        /\ program = Program(<<ExpressionStatement(case[2])>>)

\* ParseProgram has returned for a + b < c, where the lower operator comes
\* second and the first is `+', and for a < b + c.
C11_Witness ==
  /\ program # Idle
  /\ p.l.input \in { <<"a", "+", "b", "<", "c">>, <<"a", "<", "b", "+", "c">> }
  /\ p.errors = <<>>
  /\ \E case \in MixedCases : p.l.input = case[1]

(***************************************************************************)
(* C20: for every INT token, a run of decimal digits with or without       *)
(* leading zeros, whose decimal value fits in a signed 64-bit integer, the *)
(* parser records no error and the IntegerLiteral has exactly that decimal *)
(* value.                                                                  *)
(***************************************************************************)
C20_DecimalValue ==
  (program # Idle /\ p.l.input \in DigitInputs) =>
    /\ p.errors = <<>>
    /\ program =
         Program(<<ExpressionStatement(IntegerLiteral(DigitsValue(p.l.input, 10)))>>)

(***************************************************************************)
(* The evaluator run on a program: Eval(program, env) with env a fresh     *)
(* object.NewEnvironment().  The programs are syntax trees that the parser *)
(* returns with no error: no expression and no statement in them is nil.   *)
(***************************************************************************)
Var(name) == Identifier(<<name>>)

len == Identifier(<<"l", "e", "n">>)
first == Identifier(<<"f", "i", "r", "s", "t">>)
rest == Identifier(<<"r", "e", "s", "t">>)
push == Identifier(<<"p", "u", "s", "h">>)
puts == Identifier(<<"p", "u", "t", "s">>)

Let(name, value) == LetStatement(Var(name), value)

Do(expression) == ExpressionStatement(expression)

If(condition, statements) ==
  IfExpression(condition, BlockStatement(statements), Nil)

IfElse(condition, statements, otherwise) ==
  IfExpression(condition, BlockStatement(statements), BlockStatement(otherwise))

Fn(names, statements) ==
  FunctionLiteral([j \in 1..Len(names) |-> Var(names[j])],
                  BlockStatement(statements))

Call(function, arguments) == CallExpression(function, arguments)

Infix(left, operator, right) == InfixExpression(Op(operator), left, right)

Prefix(operator, right) == PrefixExpression(<<operator>>, right)

Atoms ==
  { IntegerLiteral(0), IntegerLiteral(2), Boolean(TRUE), StringLiteral(<<"a">>),
    Var("x") }

\* An if whose executed branch runs a return.
IfReturn(value) == If(Boolean(TRUE), <<ReturnStatement(value)>>)

\* A call whose function body is empty, and an if whose executed branch is.
EmptyCall == Call(Fn(<<>>, <<>>), <<>>)

EmptyIf == If(Boolean(TRUE), <<>>)

Expressions ==
  Atoms
    \cup { Prefix(op, a) : op \in { "!", "-" }, a \in Atoms }
    \cup { Infix(a, op, b) : op \in { "+", "/", "==", "<" }, a \in Atoms, b \in Atoms }
    \cup { IfElse(a, <<Do(b)>>, <<Do(c)>>) :
             a \in { Boolean(TRUE), IntegerLiteral(0), Var("x") },
             b \in Atoms, c \in { IntegerLiteral(2), Var("y") } }
    \cup { ArrayLiteral(<<a, b>>) : a \in Atoms, b \in Atoms }
    \cup { IndexExpression(ArrayLiteral(<<a>>), b) : a \in Atoms, b \in Atoms }
    \cup { Call(Fn(<<"x">>, <<Do(Infix(Var("x"), "+", a))>>), <<b>>) :
             a \in Atoms, b \in Atoms }
    \cup { Call(Fn(<<"x">>, <<Do(Var("x"))>>), <<>>) }
    \cup { Call(f, <<a>>) : f \in { len, first, puts, IntegerLiteral(2) }, a \in Atoms }
    \cup { Call(push, <<ArrayLiteral(<<>>)>>), Call(len, <<ArrayLiteral(<<>>)>>) }
    \cup { IfReturn(a) : a \in Atoms }
    \cup { EmptyCall, EmptyIf, Fn(<<>>, <<>>), If(Boolean(FALSE), <<>>) }

\* The program `X'.
ExpressionPrograms == { Program(<<Do(x)>>) : x \in Expressions }

\* One statement, then statements whose evaluation shows: a binding, an
\* output, a value.
LaterStatements ==
  <<Let("z", IntegerLiteral(2)), Do(Call(puts, <<IntegerLiteral(2)>>)),
    Do(Var("z"))>>

SequencePrograms ==
  { Program(<<s>> \o LaterStatements) :
      s \in { Do(x) : x \in Expressions }
              \cup { Let("y", x) : x \in Expressions }
              \cup { ReturnStatement(x) : x \in Atoms } }
    \cup { Program(<<Do(Call(Fn(<<>>, <<Do(x)>> \o LaterStatements), <<>>))>>) :
             x \in { EmptyCall, EmptyIf, IntegerLiteral(2), Var("x") } }
    \cup { Program(<<>>) }

\* A function body in which a return runs inside an if, the if being a
\* statement, nested in another if, the value of a let, an operand, an
\* argument; and a return that is a statement of the body.
ReturnBodies(value) ==
  { <<ReturnStatement(value)>>,
    <<Do(IfReturn(value))>>,
    <<Do(If(Boolean(TRUE), <<Do(IfReturn(value)), Do(IntegerLiteral(2))>>))>>,
    <<Let("y", IfReturn(value))>>,
    <<Do(Infix(IntegerLiteral(2), "+", IfReturn(value)))>>,
    <<Do(Call(puts, <<IfReturn(value)>>))>>,
    <<ReturnStatement(IfReturn(value))>> }

ReturnPrograms ==
  { Program(<<Do(Call(Fn(<<>>, body \o <<Do(IntegerLiteral(0))>>), <<>>))>>) :
      body \in UNION { ReturnBodies(value) : value \in Atoms } }

MaxArg == 2

\* let c = fn(x){ fn(y){ x + y } };
LetAdder ==
  Let("c", Fn(<<"x">>, <<Do(Fn(<<"y">>, <<Do(Infix(Var("x"), "+", Var("y")))>>))>>))

\* let c = ...; c(n)(m)
ClosureProgram(n, m) ==
  Program(<<LetAdder,
            Do(Call(Call(Var("c"), <<IntegerLiteral(n)>>), <<IntegerLiteral(m)>>))>>)

\* let c = ...; let a = c(n1); let b = c(n2); [a(m1), b(m2)] or [b(m2), a(m1)]
TwoClosuresProgram(n1, n2, m1, m2, aFirst) ==
  LET callA == Call(Var("a"), <<IntegerLiteral(m1)>>)
      callB == Call(Var("b"), <<IntegerLiteral(m2)>>)
  IN Program(<<LetAdder,
               Let("a", Call(Var("c"), <<IntegerLiteral(n1)>>)),
               Let("b", Call(Var("c"), <<IntegerLiteral(n2)>>)),
               Do(ArrayLiteral(IF aFirst THEN <<callA, callB>>
                                         ELSE <<callB, callA>>))>>)

ClosurePrograms ==
  { ClosureProgram(n, m) : n \in 0..MaxArg, m \in 0..MaxArg }
    \cup { TwoClosuresProgram(n1, n2, m1, m2, aFirst) :
             n1 \in 0..MaxArg, n2 \in 0..MaxArg, m1 \in 0..MaxArg,
             m2 \in 0..MaxArg, aFirst \in BOOLEAN }

MaxArrayLen == 3

\* The map program of the README, then map(arr, fn(x){return x*2;}).
MapProgram(arr) ==
  LET iter ==
        Fn(<<"arr", "acc">>,
           <<Do(IfElse(Infix(Call(len, <<Var("arr")>>), "==", IntegerLiteral(0)),
                       <<ReturnStatement(Var("acc"))>>,
                       <<ReturnStatement(
                           Call(Var("iter"),
                                <<Call(rest, <<Var("arr")>>),
                                  Call(push,
                                       <<Var("acc"),
                                         Call(Var("f"),
                                              <<Call(first, <<Var("arr")>>)>>)>>)>>))>>))>>)
      map == Fn(<<"arr", "f">>,
                <<Let("iter", iter),
                  ReturnStatement(Call(Var("iter"),
                                       <<Var("arr"), ArrayLiteral(<<>>)>>))>>)
      double == Fn(<<"x">>,
                   <<ReturnStatement(Infix(Var("x"), "*", IntegerLiteral(2)))>>)
  IN Program(<<Let("map", map),
               Do(Call(Var("map"),
                       <<ArrayLiteral([j \in 1..Len(arr) |-> IntegerLiteral(arr[j])]),
                         double>>))>>)

ArrayInputs == SeqsUpTo(0..2, MaxArrayLen)

MapPrograms == { MapProgram(arr) : arr \in ArrayInputs }

\* Most pairs of a hash literal.
MaxPairs == 2

\* Ranges over a map whose order the runtime chooses in one evaluation.
MaxRanges == 1

\* key: value pairs: equal keys with different values, values with a side
\* effect, keys whose evaluation is an error.
PairInputs ==
  { <<IntegerLiteral(1), IntegerLiteral(1)>>,
    <<IntegerLiteral(1), IntegerLiteral(2)>>,
    <<IntegerLiteral(2), Call(puts, <<IntegerLiteral(2)>>)>>,
    <<Prefix("-", Boolean(TRUE)), IntegerLiteral(1)>>,
    <<Prefix("-", StringLiteral(<<"a">>)), IntegerLiteral(1)>> }

HashLiterals ==
  { HashLiteral(pairs) : pairs \in SeqsUpTo(PairInputs, MaxPairs) }

\* The literal alone and the literal indexed: programs of one range.
HashProgramsOnce ==
  { Program(<<Do(h)>>) : h \in HashLiterals }
    \cup { Program(<<Do(IndexExpression(h, IntegerLiteral(1)))>>) : h \in HashLiterals }

\* The literal evaluated by two calls of one function: two ranges.
HashProgramsTwice ==
  { Program(<<Let("f", Fn(<<>>, <<Do(IndexExpression(h, IntegerLiteral(1)))>>)),
              Do(ArrayLiteral(<<Call(Var("f"), <<>>), Call(Var("f"), <<>>)>>))>>) :
      h \in HashLiterals }

HashPrograms == HashProgramsOnce \cup HashProgramsTwice

\* The shapes of a call whose body binds x, a name the outer environment
\* binds to m, to n: as the parameter; by a let; by a let in an if block,
\* which also binds y; by a let in a function defined in one call's
\* environment and called from another's.
FrameShapes == { "parameter", "let", "if", "closure" }

\* let x = m; ...; let r = <the call>; [r, x]
FrameProgram(shape, n, m) ==
  LET x == Var("x")
      N == IntegerLiteral(n)
      body ==
        CASE shape = "parameter" ->
               <<Let("f", Fn(<<"x">>, <<Do(x)>>)), Let("r", Call(Var("f"), <<N>>))>>
          [] shape = "let" ->
               <<Let("f", Fn(<<>>, <<Let("x", N), Do(x)>>)),
                 Let("r", Call(Var("f"), <<>>))>>
          [] shape = "if" ->
               <<Let("f", Fn(<<>>, <<Do(If(Boolean(TRUE),
                                          <<Let("x", N), Let("y", N)>>)),
                                     Do(x)>>)),
                 Let("r", Call(Var("f"), <<>>))>>
          [] shape = "closure" ->
               <<Let("mk", Fn(<<>>, <<Let("x", IntegerLiteral(2)),
                                      Do(Fn(<<>>, <<Let("x", N), Do(x)>>))>>)),
                 Let("g", Call(Var("mk"), <<>>)),
                 Let("h", Fn(<<>>, <<Let("x", IntegerLiteral(1)),
                                     Do(Call(Var("g"), <<>>))>>)),
                 Let("r", Call(Var("h"), <<>>))>>
  IN Program(<<Let("x", IntegerLiteral(m))>> \o body
               \o <<Do(ArrayLiteral(<<Var("r"), x>>))>>)

\* The names the top level of the program binds.
FrameNames(shape) ==
  IF shape = "closure" THEN { <<"x">>, <<"mk">>, <<"g">>, <<"h">>, <<"r">> }
  ELSE { <<"x">>, <<"f">>, <<"r">> }

FramePrograms ==
  { FrameProgram(shape, n, m) : shape \in FrameShapes, n \in 0..MaxArg, m \in 0..MaxArg }

\* Two strings of different bytes.
KeyTextA == <<"8", "y", "n", "0", "i", "Y", "C", "K", "Y", "H", "l", "I", "j", "4", "-", "B", "w", "P", "q", "k">>

KeyTextB == <<"G", "R", "e", "L", "U", "r", "M", "4", "w", "M", "q", "f", "g", "9", "y", "z", "V", "3", "K", "Q">>

\* Keys of the three hashable types, with equal numbers among them.
HashIndexKeys ==
  { IntegerLiteral(0), IntegerLiteral(1), Boolean(TRUE), Boolean(FALSE),
    StringLiteral(<<"a">>), StringLiteral(<<"1">>), StringLiteral(KeyTextA),
    StringLiteral(KeyTextB) }

\* What a hash literal stores: one key, or two keys of different types.
StoredKeys ==
  { <<k>> : k \in HashIndexKeys }
    \cup { <<IntegerLiteral(1), Boolean(TRUE)>>, <<Boolean(FALSE), IntegerLiteral(0)>>,
           <<StringLiteral(<<"1">>), IntegerLiteral(1)>> }

\* {stored[1]: 1, stored[2]: 2}[index]
HashIndexProgram(stored, index) ==
  Program(<<Do(IndexExpression(
                 HashLiteral([j \in 1..Len(stored) |-> <<stored[j], IntegerLiteral(j)>>]),
                 index))>>)

HashIndexPrograms ==
  { HashIndexProgram(stored, index) : stored \in StoredKeys, index \in HashIndexKeys }

\* Most arguments of a call.
MaxArguments == 3

ParameterNames == <<"x", "y">>

\* fn(x, y){ [x, y] }(1, 2, 3) with the first np parameters and the first k
\* arguments.
ArityProgram(np, k) ==
  Program(<<Do(Call(Fn(SubSeq(ParameterNames, 1, np),
                       <<Do(ArrayLiteral([j \in 1..np |-> Var(ParameterNames[j])]))>>),
                    [j \in 1..k |-> IntegerLiteral(j)]))>>)

ArityPrograms ==
  { ArityProgram(np, k) : np \in 0..Len(ParameterNames), k \in 0..MaxArguments }

\* The builtins of a fixed number of arguments, each with that number.
BuiltinArity ==
  { <<<<"l", "e", "n">>, 1>>, <<<<"f", "i", "r", "s", "t">>, 1>>,
    <<<<"l", "a", "s", "t">>, 1>>, <<<<"r", "e", "s", "t">>, 1>>,
    <<<<"p", "u", "s", "h">>, 2>> }

\* name(1, 2, ...) with k arguments.
BuiltinCall(name, k) ==
  Program(<<Do(Call(Identifier(name), [j \in 1..k |-> IntegerLiteral(j)]))>>)

BuiltinCalls ==
  { BuiltinCall(b[1], k) : b \in BuiltinArity, k \in 0..MaxArguments }

\* Most push and rest calls made one on the result of the other.
MaxCalls == 2

ResultNames == <<"b", "c", "d">>

\* What a value shows: the elements of an array, or null.
Elements(elements) == [elements |-> elements]

NoElements == [null |-> TRUE]

\* What push(_, 9) and rest make of an array of these elements.
Made(op, elements) ==
  IF op = "push" THEN Elements(Append(elements, Integer(9)))
  ELSE IF elements = <<>> THEN NoElements
  ELSE Elements(Tail(elements))

\* What the j-th of the calls ops makes, the first on the array of these
\* elements and each next one on the array the one before made.
RECURSIVE MadeBy(_, _, _)
MadeBy(elements, ops, j) ==
  IF j = 0 THEN Elements(elements)
  ELSE Made(ops[j], MadeBy(elements, ops, j - 1).elements)

\* let a = arr; let f = fn(){ a }; let h = {1: a}; let w = [a];
\* let b = op1(a); let c = op2(b); [a, f(), h[1], w[0], len(a), b, c]
AliasProgram(arr, ops) ==
  LET a == Var("a")
      called(j) ==
        LET on == IF j = 1 THEN a ELSE Var(ResultNames[j - 1])
        IN Let(ResultNames[j],
               IF ops[j] = "push" THEN Call(push, <<on, IntegerLiteral(9)>>)
               ELSE Call(rest, <<on>>))
  IN Program(<<Let("a", ArrayLiteral([j \in 1..Len(arr) |-> IntegerLiteral(arr[j])])),
               Let("f", Fn(<<>>, <<Do(a)>>)),
               Let("h", HashLiteral(<<<<IntegerLiteral(1), a>>>>)),
               Let("w", ArrayLiteral(<<a>>))>>
               \o [j \in 1..Len(ops) |-> called(j)]
               \o <<Do(ArrayLiteral(
                          <<a, Call(Var("f"), <<>>),
                            IndexExpression(Var("h"), IntegerLiteral(1)),
                            IndexExpression(Var("w"), IntegerLiteral(0)),
                            Call(len, <<a>>)>>
                            \o [j \in 1..Len(ops) |-> Var(ResultNames[j])]))>>)

\* An array of each length: 1, 2, ... n.
AliasArrays == { [j \in 1..n |-> j] : n \in 0..MaxArrayLen }

\* The arrays and calls in which no call is made on null.
AliasCases ==
  { case \in AliasArrays \X (SeqsUpTo({ "push", "rest" }, MaxCalls) \ { <<>> }) :
      \A j \in 1..(Len(case[2]) - 1) :
        MadeBy([i \in 1..Len(case[1]) |-> Integer(case[1][i])], case[2], j)
          # NoElements }

AliasPrograms == { AliasProgram(case[1], case[2]) : case \in AliasCases }

\* The shapes of a function that reads a binding its defining environment
\* gets after the function value is made: a name bound later; a name bound
\* before to m and again later; the name of the function itself; a name
\* bound later in the environment of the call that made the function.
LateShapes == { "added", "replaced", "itself", "inCall" }

\* Each yields n.
LateProgram(shape, n, m) ==
  LET N == IntegerLiteral(n)
      y == Var("y")
      f == Var("f")
      k == Var("k")
  IN CASE shape = "added" ->
            \* let f = fn(){ y }; let y = n; f()
            Program(<<Let("f", Fn(<<>>, <<Do(y)>>)), Let("y", N), Do(Call(f, <<>>))>>)
       [] shape = "replaced" ->
            \* let y = m; let f = fn(){ y }; let y = n; f()
            Program(<<Let("y", IntegerLiteral(m)), Let("f", Fn(<<>>, <<Do(y)>>)),
                      Let("y", N), Do(Call(f, <<>>))>>)
       [] shape = "itself" ->
            \* let f = fn(k){ if (k < 1) { 0 } else { 1 + f(k - 1) } }; f(n)
            Program(<<Let("f",
                          Fn(<<"k">>,
                             <<Do(IfElse(Infix(k, "<", IntegerLiteral(1)),
                                         <<Do(IntegerLiteral(0))>>,
                                         <<Do(Infix(IntegerLiteral(1), "+",
                                                    Call(f, <<Infix(k, "-",
                                                                    IntegerLiteral(1))>>)))>>))>>)),
                      Do(Call(f, <<N>>))>>)
       [] shape = "inCall" ->
            \* let mk = fn(){ let f = fn(){ y }; let y = n; f }; mk()()
            Program(<<Let("mk", Fn(<<>>, <<Let("f", Fn(<<>>, <<Do(y)>>)),
                                           Let("y", N), Do(f)>>)),
                      Do(Call(Call(Var("mk"), <<>>), <<>>))>>)

LatePrograms ==
  { LateProgram(shape, n, m) : shape \in LateShapes, n \in 0..MaxArg, m \in 0..MaxArg }

\* Expressions whose evaluation yields an Error: made by an identifier, an
\* operator, an index, a builtin, the body of a user function, an element,
\* a hash key, an argument, a condition, a returned value.
ErrorExpressions ==
  LET u == Var("u")
      one == IntegerLiteral(1)
  IN { u, Prefix("-", Boolean(TRUE)), Infix(one, "+", Boolean(TRUE)),
       IndexExpression(one, one), Call(len, <<one>>),
       Call(Fn(<<>>, <<Do(u)>>), <<>>), ArrayLiteral(<<one, u>>),
       HashLiteral(<<<<ArrayLiteral(<<>>), one>>>>), HashLiteral(<<<<one, u>>>>),
       Call(puts, <<u>>), Call(Fn(<<"x">>, <<Do(one)>>), <<u>>),
       Call(Fn(<<"x">>, <<Do(one)>>), <<one, u>>), Call(one, <<>>),
       If(u, <<Do(one)>>), IfReturn(u) }

\* let y = 1; let y = X; let w = 2
ErrorLetProgram(x) ==
  Program(<<Let("y", IntegerLiteral(1)), Let("y", x), Let("w", IntegerLiteral(2))>>)

ErrorLetPrograms == { ErrorLetProgram(x) : x \in ErrorExpressions }

EvalInputs ==
  ExpressionPrograms \cup SequencePrograms \cup ReturnPrograms
    \cup ClosurePrograms \cup MapPrograms \cup HashPrograms
    \cup FramePrograms \cup HashIndexPrograms \cup ArityPrograms
    \cup BuiltinCalls \cup AliasPrograms \cup LatePrograms
    \cup ErrorLetPrograms

\* The orders of the places 1..n.
Orderings(n) ==
  { perm \in [1..n -> 1..n] : \A i \in 1..n : \A j \in 1..n :
                                 perm[i] = perm[j] => i = j }

\* What the runtime may choose for the ranges of one evaluation.
Orders(node) ==
  IF node \in HashProgramsTwice THEN [1..MaxRanges -> Orderings(MaxPairs)]
  ELSE IF node \in HashProgramsOnce \cup HashIndexPrograms
    THEN [1..1 -> Orderings(MaxPairs)]
  ELSE { <<>> }

\* Eval(node, env) with env := object.NewEnvironment().
EvalFresh(node, ord) ==
  LET fresh == NewEnvironment(NewState(ord))
  IN Eval(node, fresh.env, fresh.st)

EvalInit ==
  /\ root \in EvalInputs
  /\ outcome = Idle
  /\ l = Idle
  /\ tokens = <<>>
  /\ p = Idle
  /\ program = Idle

EvalCall ==
  /\ outcome = Idle
  /\ \E ord \in Orders(root) : outcome' = EvalFresh(root, ord)
  /\ UNCHANGED <<l, tokens, p, program, root>>

EvalNext == EvalCall

EvalSpec == EvalInit /\ [][EvalNext]_vars

(***************************************************************************)
(* C3: the evaluation of a program that parses without errors ends with a  *)
(* runtime value: not with a nil result and not with a host fault, a       *)
(* division by zero and a call with fewer arguments than parameters aside; *)
(* the empty program and empty blocks included.                            *)
(***************************************************************************)
C3_EvalYieldsValue ==
  (outcome # Idle /\ ~outcome.st.excused) =>
    (~outcome.st.fault /\ outcome.v # NIL)

\* What the evaluator does after an Error has been made, were it to go on:
\* evaluate a node, bind a name, run a return, enter a function body, print,
\* make another Error.
Activity == { "Eval", "Set", "Return", "Apply", "puts", "newError" }

(***************************************************************************)
(* C4: once a sub-evaluation yields an Error, the evaluation of the whole  *)
(* program yields that same Error and nothing later in evaluation order is *)
(* evaluated: after the Error is made no node is evaluated, no name bound, *)
(* nothing printed, and the evaluation ends without a fault.               *)
(***************************************************************************)
C4_ErrorEndsEvaluation ==
  outcome # Idle =>
    LET trace == outcome.st.trace
    IN \A i \in 1..Len(trace) :
         trace[i].e = "newError" =>
           /\ ~outcome.st.fault
           /\ outcome.v = Error(trace[i].Message)
           /\ \A j \in (i + 1)..Len(trace) : trace[j].e \notin Activity

\* An Error was made by the first statement of a program with later
\* statements, or inside a call's body or arguments.
C4_Witness ==
  /\ outcome # Idle
  /\ root \in SequencePrograms
  /\ Len(root.Statements) > 1
  /\ \E i \in 1..Len(outcome.st.trace) : outcome.st.trace[i].e = "newError"
  /\ isError(outcome.v)

(***************************************************************************)
(* C5: when a return statement runs inside a function body, at any depth   *)
(* of ifs and whether the if is a statement or part of a larger            *)
(* expression, no further statement of that body is evaluated (nothing is  *)
(* evaluated in the call's environment after the return) and the value of  *)
(* the call is the returned value.                                         *)
(***************************************************************************)
C5_ReturnEndsCall ==
  outcome # Idle =>
    LET trace == outcome.st.trace
    IN \A i \in 1..Len(trace) :
         (/\ trace[i].e = "Return"
          /\ \E a \in 1..i : trace[a].e = "Apply" /\ trace[a].env = trace[i].env)
           =>
           /\ \A j \in (i + 1)..Len(trace) :
                ~(trace[j].e = "Eval" /\ trace[j].env = trace[i].env)
           /\ \E j \in (i + 1)..Len(trace) :
                /\ trace[j].e = "Applied"
                /\ trace[j].env = trace[i].env
                /\ trace[j].val = trace[i].val

\* What of an evaluation's end a caller can observe: the value, the arrays
\* and hashes it may refer to, whether a fault ended it.
Observed(r) ==
  [v |-> r.v, arrays |-> r.st.arrays, hashes |-> r.st.hashes,
   fault |-> r.st.fault]

(***************************************************************************)
(* C6: for every expression X the program `return X;' evaluates to the     *)
(* same value as the program `X', also when X is an if whose executed      *)
(* branch runs a return.                                                   *)
(***************************************************************************)
C6_ReturnAtTopLevel ==
  (outcome # Idle /\ root \in ExpressionPrograms) =>
    LET x == root.Statements[1].Expression
        returned == EvalFresh(Program(<<ReturnStatement(x)>>), outcome.st.ord)
    IN Observed(returned) = Observed(outcome)

(***************************************************************************)
(* C7: a function returned from a call keeps the parameter bindings of the *)
(* call that made it: c(n)(m) yields n + m, and the closures of two calls  *)
(* each keep their own x, in whichever order they are called.              *)
(***************************************************************************)
C7_ClosuresKeepBindings ==
  outcome # Idle =>
    /\ \A n \in 0..MaxArg : \A m \in 0..MaxArg :
         root = ClosureProgram(n, m) =>
           (~outcome.st.fault /\ outcome.v = Integer(n + m))
    /\ \A n1 \in 0..MaxArg : \A n2 \in 0..MaxArg : \A m1 \in 0..MaxArg :
         \A m2 \in 0..MaxArg : \A aFirst \in BOOLEAN :
           root = TwoClosuresProgram(n1, n2, m1, m2, aFirst) =>
             /\ ~outcome.st.fault
             /\ outcome.v.t = object.ARRAY_OBJ
             /\ outcome.st.arrays[outcome.v.a] =
                  IF aFirst THEN <<Integer(n1 + m1), Integer(n2 + m2)>>
                  ELSE <<Integer(n2 + m2), Integer(n1 + m1)>>

\* Two closures with different x have been called, the later one first.
C7_Witness ==
  /\ outcome # Idle
  /\ root = TwoClosuresProgram(1, MaxArg, 0, 1, FALSE)
  /\ outcome.v.t = object.ARRAY_OBJ

(***************************************************************************)
(* C8: for every array arr of integers, the empty one included, the map    *)
(* program followed by map(arr, fn(x){return x*2;}) ends with an array of  *)
(* the same length whose i-th element is twice the i-th element of arr.    *)
(***************************************************************************)
C8_MapDoubles ==
  outcome # Idle =>
    \A arr \in ArrayInputs :
      root = MapProgram(arr) =>
        /\ ~outcome.st.fault
        /\ outcome.v.t = object.ARRAY_OBJ
        /\ Len(outcome.st.arrays[outcome.v.a]) = Len(arr)
        /\ \A j \in 1..Len(arr) :
             outcome.st.arrays[outcome.v.a][j] = Integer(2 * arr[j])

\* map has run on an array of MaxArrayLen elements, not all equal.
C8_Witness ==
  /\ outcome # Idle
  /\ \E arr \in ArrayInputs :
       /\ Len(arr) = MaxArrayLen
       /\ arr[1] # arr[MaxArrayLen]
       /\ root = MapProgram(arr)
  /\ outcome.v.t = object.ARRAY_OBJ

(***************************************************************************)
(* C9: the evaluation of a hash literal does not depend on the order in    *)
(* which its pairs are iterated: whatever orders the runtime chooses, the  *)
(* program ends with the same value (the same Error, the same stored       *)
(* values) after the same sequence of side effects.                        *)
(***************************************************************************)
C9_HashLiteralDeterministic ==
  (outcome # Idle /\ root \in HashPrograms) =>
    \A ord \in Orders(root) :
      LET other == EvalFresh(root, ord)
      IN /\ Observed(other) = Observed(outcome)
         /\ other.st.trace = outcome.st.trace

\* Where in the trace the call that began at event i ended: the event of its
\* return, or past the end of the trace when a fault ended it.
CallEnd(trace, i) ==
  IF \E j \in (i + 1)..Len(trace) :
       trace[j].e = "Applied" /\ trace[j].env = trace[i].env
    THEN CHOOSE j \in (i + 1)..Len(trace) :
           trace[j].e = "Applied" /\ trace[j].env = trace[i].env
    ELSE Len(trace) + 1

(***************************************************************************)
(* C13: executing the body of a user function adds, removes and changes no *)
(* binding of an environment that existed before the call (the defining    *)
(* one, the caller's): every name bound while the body runs, by a let of   *)
(* the body at any depth of ifs, is bound in an environment made by the    *)
(* call or later.  A parameter or a let of the body that has the name of   *)
(* an outer binding shadows it during the call only: the call yields the   *)
(* inner value, and after the call the top-level environment binds the     *)
(* names of the top-level lets and no other, the shadowed name to its      *)
(* previous value.                                                         *)
(***************************************************************************)
C13_CallLeavesOuterBindings ==
  outcome # Idle =>
    /\ LET trace == outcome.st.trace
       IN \A i \in 1..Len(trace) :
            trace[i].e = "Apply" =>
              \A j \in (i + 1)..(CallEnd(trace, i) - 1) :
                trace[j].e = "Set" => trace[j].env >= trace[i].env
    /\ \A shape \in FrameShapes : \A n \in 0..MaxArg : \A m \in 0..MaxArg :
         root = FrameProgram(shape, n, m) =>
           /\ ~outcome.st.fault
           /\ outcome.v.t = object.ARRAY_OBJ
           /\ outcome.st.arrays[outcome.v.a] = <<Integer(n), Integer(m)>>
           /\ DOMAIN outcome.st.envs[1].store = FrameNames(shape)
           /\ outcome.st.envs[1].store[<<"x">>] = Integer(m)

\* A call whose body bound x and y inside an if block has returned, the
\* outer x having another value.
C13_Witness ==
  /\ outcome # Idle
  /\ root = FrameProgram("if", MaxArg, 0)
  /\ \E i \in 1..Len(outcome.st.trace) :
       /\ outcome.st.trace[i].e = "Set"
       /\ outcome.st.trace[i].env > 1
       /\ outcome.st.trace[i].name = <<"y">>
  /\ outcome.v.t = object.ARRAY_OBJ

\* The value of the pair the index is to find: that of the stored key the
\* index equals under Same, null when there is none.
Found(stored, index, Same(_, _)) ==
  IF \E j \in 1..Len(stored) : Same(stored[j], index)
    THEN Integer(CHOOSE j \in 1..Len(stored) : Same(stored[j], index))
    ELSE NULL

\* The same type and the same content.
SameContent(key, index) == key = index

\* The same type and the same 64-bit value: the integer, the boolean, the
\* FNV-1a hash of the string's bytes.
SameHashed(key, index) ==
  /\ key.k = index.k
  /\ IF key.k = "StringLiteral"
       THEN Fnv64a(FnvOffset64, key.Str) = Fnv64a(FnvOffset64, index.Str)
       ELSE key = index

(***************************************************************************)
(* C14 as stated: indexing a hash finds a pair exactly when the index has  *)
(* the same type and the same content as the stored key, and yields null   *)
(* for a key never stored: strings of equal bytes find the same pair, the  *)
(* integer 1 and true, 0 and false, are keys of separate pairs.            *)
(***************************************************************************)
C14_IndexFindsEqualKey ==
  outcome # Idle =>
    \A stored \in StoredKeys : \A index \in HashIndexKeys :
      root = HashIndexProgram(stored, index) =>
        /\ ~outcome.st.fault
        /\ outcome.v = Found(stored, index, SameContent)

(***************************************************************************)
(* C14 amended: indexing a hash finds a pair exactly when the index has    *)
(* the same type as the stored key and the same 64-bit value, which for a  *)
(* string is the FNV-1a hash of its bytes, and yields null otherwise:      *)
(* strings of equal bytes find the same pair, as do strings of different   *)
(* bytes and equal hash; the integer 1 and true, 0 and false, are keys of  *)
(* separate pairs.                                                         *)
(***************************************************************************)
C14_IndexFindsEqualHashKey ==
  outcome # Idle =>
    \A stored \in StoredKeys : \A index \in HashIndexKeys :
      root = HashIndexProgram(stored, index) =>
        /\ ~outcome.st.fault
        /\ outcome.v = Found(stored, index, SameHashed)

\* A hash that stores one of the two strings was indexed with the other and
\* the index found the pair.
C14_Witness ==
  /\ outcome # Idle
  /\ root = HashIndexProgram(<<StringLiteral(KeyTextA)>>, StringLiteral(KeyTextB))
  /\ KeyTextA # KeyTextB
  /\ outcome.v = Integer(1)

(***************************************************************************)
(* C15: a call of a user function with at least as many arguments as       *)
(* parameters binds the parameters by position, discards the arguments     *)
(* beyond them and evaluates the body normally; a call with fewer          *)
(* arguments than parameters ends in an out-of-range access, a fault of    *)
(* the host, and yields neither a value nor an Error.                      *)
(***************************************************************************)
C15_ArgumentCount ==
  outcome # Idle =>
    \A np \in 0..Len(ParameterNames) : \A k \in 0..MaxArguments :
      root = ArityProgram(np, k) =>
        IF k >= np
          THEN /\ ~outcome.st.fault
               /\ outcome.v.t = object.ARRAY_OBJ
               /\ outcome.st.arrays[outcome.v.a] = [j \in 1..np |-> Integer(j)]
               /\ DOMAIN outcome.st.envs[2].store =
                    { <<ParameterNames[j]>> : j \in 1..np }
          ELSE /\ outcome.st.fault
               /\ outcome.v = NIL

\* A function of two parameters was called with one argument, and the
\* evaluation ended in the fault.
C15_Witness ==
  /\ outcome # Idle
  /\ root = ArityProgram(2, 1)
  /\ outcome.st.fault

(***************************************************************************)
(* C16: a call of len, first, last, rest or push with N arguments, N not   *)
(* the builtin's number M of arguments (1, 1, 1, 1 and 2), yields the      *)
(* Error `wrong number of arguments. got=N, want=M' with that N and M.     *)
(***************************************************************************)
C16_WrongNumberOfArguments ==
  outcome # Idle =>
    \A b \in BuiltinArity : \A k \in 0..MaxArguments :
      (root = BuiltinCall(b[1], k) /\ k # b[2]) =>
        /\ ~outcome.st.fault
        /\ outcome.v = Error(<<"wrong number of arguments. got=", ToString(k),
                               ", want=", ToString(b[2])>>)

\* What is seen through a value: the elements of an array, or null.
Seen(obj, st) ==
  IF obj.t = object.ARRAY_OBJ THEN Elements(st.arrays[obj.a])
  ELSE IF obj = NULL THEN NoElements
  ELSE obj

(***************************************************************************)
(* C17: push(arr, v) and rest(arr) leave arr unchanged and return another  *)
(* Array (rest of an empty array returns null).  After a sequence of push  *)
(* and rest calls, the first on arr and each next one on the result of the *)
(* one before, the name bound to arr, a closure over it, a hash value and  *)
(* an array element that held it are still that one array with its        *)
(* original elements and length; the result of each call has the elements  *)
(* the call made and is an array other than arr and than the other         *)
(* results, so a push to a result shows in neither.                        *)
(***************************************************************************)
C17_PushRestLeaveArray ==
  outcome # Idle =>
    \A case \in AliasCases :
      root = AliasProgram(case[1], case[2]) =>
        /\ ~outcome.st.fault
        /\ outcome.v.t = object.ARRAY_OBJ
        /\ LET arr == [i \in 1..Len(case[1]) |-> Integer(case[1][i])]
               ops == case[2]
               seen == outcome.st.arrays[outcome.v.a]
           IN /\ Len(seen) = 5 + Len(ops)
              /\ \A j \in 1..4 :
                   /\ seen[j] = seen[1]
                   /\ seen[j].t = object.ARRAY_OBJ
                   /\ Seen(seen[j], outcome.st) = Elements(arr)
              /\ seen[5] = Integer(Len(arr))
              /\ \A j \in 1..Len(ops) :
                   /\ Seen(seen[5 + j], outcome.st) = MadeBy(arr, ops, j)
                   /\ seen[5 + j].t = object.ARRAY_OBJ =>
                        \A i \in 1..(4 + j) : i # 5 => seen[i] # seen[5 + j]

\* A push was made on the result of a push on an array of MaxArrayLen
\* elements.
C17_Witness ==
  /\ outcome # Idle
  /\ \E case \in AliasCases :
       /\ Len(case[1]) = MaxArrayLen
       /\ case[2] = <<"push", "push">>
       /\ root = AliasProgram(case[1], case[2])
  /\ outcome.v.t = object.ARRAY_OBJ

(***************************************************************************)
(* C18: a function value holds its defining environment by reference, not  *)
(* a copy of it: a binding added to that environment, or replaced in it,   *)
(* after the function value was made is the one the body sees when the     *)
(* function is called, the binding of the function's own name by its let   *)
(* included, so that the function can call itself.                         *)
(***************************************************************************)
C18_FunctionSeesLaterBindings ==
  outcome # Idle =>
    \A shape \in LateShapes : \A n \in 0..MaxArg : \A m \in 0..MaxArg :
      root = LateProgram(shape, n, m) =>
        /\ ~outcome.st.fault
        /\ outcome.v = Integer(n)

\* A function bound by a let has called itself MaxArg times and returned.
C18_Witness ==
  /\ outcome # Idle
  /\ root = LateProgram("itself", MaxArg, 0)
  /\ Cardinality({ i \in 1..Len(outcome.st.trace) :
                     outcome.st.trace[i].e = "Applied" }) = MaxArg + 1
  /\ outcome.v = Integer(MaxArg)

(***************************************************************************)
(* C19: during an evaluation no Error value is bound in an environment,    *)
(* is an element of an array, is the key or the value of a hash pair, or   *)
(* is an argument passed to a user function or a builtin; and a let whose  *)
(* value yields an Error binds nothing: the name is neither created nor    *)
(* bound again, and the evaluation ends with the bindings made before.     *)
(***************************************************************************)
C19_NoErrorIsStored ==
  outcome # Idle =>
    LET st == outcome.st
    IN /\ \A e \in 1..Len(st.envs) : \A n \in DOMAIN st.envs[e].store :
            ~isError(st.envs[e].store[n])
       /\ \A i \in 1..Len(st.trace) :
            /\ st.trace[i].e = "Set" => ~isError(st.trace[i].val)
            /\ st.trace[i].e = "Call" =>
                 \A j \in 1..Len(st.trace[i].args) : ~isError(st.trace[i].args[j])
       /\ \A a \in 1..Len(st.arrays) : \A j \in 1..Len(st.arrays[a]) :
            ~isError(st.arrays[a][j])
       /\ \A h \in 1..Len(st.hashes) : \A pair \in st.hashes[h] :
            ~isError(pair.Key) /\ ~isError(pair.Value)
       /\ \A x \in ErrorExpressions :
            root = ErrorLetProgram(x) =>
              /\ ~st.fault
              /\ isError(outcome.v)
              /\ DOMAIN st.envs[1].store = { <<"y">> }
              /\ st.envs[1].store[<<"y">>] = Integer(1)

\* The value of a let that binds a bound name again was a call whose second
\* argument yielded an Error.
C19_Witness ==
  /\ outcome # Idle
  /\ root = ErrorLetProgram(Call(Fn(<<"x">>, <<Do(IntegerLiteral(1))>>),
                                 <<IntegerLiteral(1), Var("u")>>))
  /\ isError(outcome.v)

=============================================================================
